---------------------------- MODULE Spec2Model ----------------------------
(***************************************************************************)
(* A model of ckanext/dcat/profiles.py: the RDF profiles that convert      *)
(* between a CKAN dataset dict and an RDF graph (DCAT-AP).                 *)
(*                                                                         *)
(* Representation.                                                         *)
(*  - A Python str is a sequence of one-character strings, so that strip,  *)
(*    split, replace, "in" and json.loads are computed character by        *)
(*    character.  Vocabulary terms (dct:title, dcat:Catalog, ...) are only *)
(*    ever compared for equality by the code; they are written as one      *)
(*    symbol.                                                              *)
(*  - A Python value whose type the code inspects (the result of           *)
(*    json.loads, a value that may be None) is a record [t, v]: t is the   *)
(*    Python type, v its content.                                          *)
(*  - An RDF term is a record [kind, value, language, datatype].           *)
(*  - The graph self.g is a duplicate-free sequence of triples <<s, p, o>> *)
(*    in the order rdflib iterates them.                                   *)
(*  - A dict is a function from its keys (TLA+ strings) to its values.     *)
(***************************************************************************)
EXTENDS Integers, Sequences, FiniteSets, TLC

VARIABLES
    g,                      \* self.g: the graph bound to the profile instance
    dataset_dict,           \* the dataset dict a profile reads or fills
    licenceregister_cache,  \* self._licenceregister_cache
    config,                 \* the ckantoolkit config options the code reads
    license_register,       \* LicenseRegister().items() of the CKAN instance
    input,                  \* the arguments the caller hands to the next call
    last                    \* the last call made: [op, arg, exc, val]

vars == <<g, dataset_dict, licenceregister_cache, config, license_register, input,
          last>>

-----------------------------------------------------------------------------
(* Bounds of the model *)

\* longest string handed to CleanedURIRef
MaxUriLen == 3

-----------------------------------------------------------------------------
(* Python values *)

None == [t |-> "NoneType", v |-> <<>>]
PyStr(s) == [t |-> "str", v |-> s]
PyList(s) == [t |-> "list", v |-> s]
PyNum(s) == [t |-> "int", v |-> s]
PyBool(s) == [t |-> "bool", v |-> s]
PyDict(s) == [t |-> "dict", v |-> s]

\* {}: a dict is a function from its keys
EmptyDict == <<>>

\* bool(x) for the values above: None, "", [], {}, 0 and False are falsy
Truthy(x) ==
    CASE x.t = "NoneType" -> FALSE
      [] x.t = "bool" -> x.v = <<"t", "r", "u", "e">>
      [] x.t \in {"int", "float"} ->
            \E i \in 1..Len(x.v) : x.v[i] \notin {"0", "-", "."}
      [] OTHER -> x.v # <<>>

-----------------------------------------------------------------------------
(* str methods *)

Range(s) == {s[i] : i \in 1..Len(s)}

\* the characters str.strip() removes (those of them the model's inputs use)
Whitespace == {" ", "\t"}

RECURSIVE LStrip(_)
LStrip(s) ==
    IF s # <<>> /\ Head(s) \in Whitespace THEN LStrip(Tail(s)) ELSE s

RECURSIVE RStrip(_)
RStrip(s) ==
    IF s # <<>> /\ s[Len(s)] \in Whitespace
    THEN RStrip(SubSeq(s, 1, Len(s) - 1))
    ELSE s

\* s.strip()
Strip(s) == RStrip(LStrip(s))

\* s.startswith(p)
StartsWith(s, p) == Len(p) <= Len(s) /\ SubSeq(s, 1, Len(p)) = p

\* sub in s
IsSubstring(sub, s) ==
    \E i \in 1..(Len(s) - Len(sub) + 1) : SubSeq(s, i, i + Len(sub) - 1) = sub

\* s.replace(c, r) for a one-character c
RECURSIVE Replace(_, _, _)
Replace(s, c, r) ==
    IF s = <<>> THEN <<>>
    ELSE (IF Head(s) = c THEN r ELSE <<Head(s)>>) \o Replace(Tail(s), c, r)

\* s.replace(sub, "") for a non-empty sub, scanning left to right
RECURSIVE Remove(_, _)
Remove(s, sub) ==
    IF s = <<>> THEN <<>>
    ELSE IF StartsWith(s, sub) THEN Remove(SubSeq(s, Len(sub) + 1, Len(s)), sub)
    ELSE <<Head(s)>> \o Remove(Tail(s), sub)

\* s.split(c): the pieces between the occurrences of c (always at least one)
RECURSIVE Split(_, _)
Split(s, c) ==
    IF \A i \in 1..Len(s) : s[i] # c THEN <<s>>
    ELSE LET k == CHOOSE i \in 1..Len(s) :
                      s[i] = c /\ \A j \in 1..(i - 1) : s[j] # c
         IN <<SubSeq(s, 1, k - 1)>> \o Split(SubSeq(s, k + 1, Len(s)), c)

\* sep.join(items)
RECURSIVE Join(_, _)
Join(items, sep) ==
    IF items = <<>> THEN <<>>
    ELSE IF Len(items) = 1 THEN items[1]
    ELSE items[1] \o sep \o Join(Tail(items), sep)

\* all sequences over S of length at most n
RECURSIVE SeqsUpTo(_, _)
SeqsUpTo(S, n) ==
    IF n = 0 THEN {<<>>}
    ELSE LET shorter == SeqsUpTo(S, n - 1)
         IN shorter \cup {Append(s, x) : s \in shorter, x \in S}

\* all duplicate-free sequences over S of length at most n
RECURSIVE InjSeqsUpTo(_, _)
InjSeqsUpTo(S, n) ==
    IF n = 0 THEN {<<>>}
    ELSE LET shorter == InjSeqsUpTo(S, n - 1)
         IN shorter \cup
            UNION {{Append(s, x) : x \in S \ Range(s)} : s \in shorter}

-----------------------------------------------------------------------------
(* RDF terms *)

URIRef(s) == [kind |-> "URIRef", value |-> s, language |-> <<>>, datatype |-> ""]
BNode(s) == [kind |-> "BNode", value |-> s, language |-> <<>>, datatype |-> ""]
Literal(s) == [kind |-> "Literal", value |-> s, language |-> <<>>, datatype |-> ""]
LiteralLang(s, lang) ==
    [kind |-> "Literal", value |-> s, language |-> lang, datatype |-> ""]
LiteralTyped(s, dt) ==
    [kind |-> "Literal", value |-> s, language |-> <<>>, datatype |-> dt]

\* str(term)
Str(term) == term.value

\* bool(term): URIRef, BNode and Literal are str subclasses
TermTruthy(term) == term.value # <<>>

-----------------------------------------------------------------------------
(* URI/Literal builder *)

\* quotechars of CleanedURIRef._careful_quote, in the order it replaces them
\* (the grave accent, which a TLA+ string cannot hold, is written BACKTICK)
QuoteChars ==
    <<" ", "!", "\"", "$", "'", "(", ")", "*", ",", ";", "<", ">",
      "[", "]", "{", "|", "}", "\\", "^", "BACKTICK">>

\* urllib.parse.quote(c) for the characters of quotechars
Quote(c) ==
    CASE c = " " -> <<"%", "2", "0">>
      [] c = "!" -> <<"%", "2", "1">>
      [] c = "\"" -> <<"%", "2", "2">>
      [] c = "$" -> <<"%", "2", "4">>
      [] c = "'" -> <<"%", "2", "7">>
      [] c = "(" -> <<"%", "2", "8">>
      [] c = ")" -> <<"%", "2", "9">>
      [] c = "*" -> <<"%", "2", "A">>
      [] c = "," -> <<"%", "2", "C">>
      [] c = ";" -> <<"%", "3", "B">>
      [] c = "<" -> <<"%", "3", "C">>
      [] c = ">" -> <<"%", "3", "E">>
      [] c = "[" -> <<"%", "5", "B">>
      [] c = "]" -> <<"%", "5", "D">>
      [] c = "{" -> <<"%", "7", "B">>
      [] c = "|" -> <<"%", "7", "C">>
      [] c = "}" -> <<"%", "7", "D">>
      [] c = "\\" -> <<"%", "5", "C">>
      [] c = "^" -> <<"%", "5", "E">>
      [] c = "BACKTICK" -> <<"%", "6", "0">>
      [] c = "%" -> <<"%", "2", "5">>
      [] OTHER -> <<c>>

\* the loop of _careful_quote: value = value.replace(c, quote(c)) for each c
RECURSIVE QuoteEach(_, _)
QuoteEach(value, chars) ==
    IF chars = <<>> THEN value
    ELSE QuoteEach(Replace(value, Head(chars), Quote(Head(chars))), Tail(chars))

\* a quoting that also encodes the percent sign
careful_quote_percent(value) == QuoteEach(value, <<"%">> \o QuoteChars)

\* CleanedURIRef._careful_quote
careful_quote(value) == QuoteEach(value, QuoteChars)

\* CleanedURIRef(value) for a str value
CleanedURIRef(value) == URIRef(careful_quote(Strip(value)))

-----------------------------------------------------------------------------
(* json.loads, as far as the strings of the model can spell JSON:          *)
(* whitespace, integers and decimals without exponent, strings without     *)
(* escapes, arrays, objects, true, false and null.  The alphabets the      *)
(* inputs are drawn from hold no backslash and no exponent after a digit,  *)
(* so no other JSON text can be written.  A decoded object is the list of  *)
(* its members in the order written.                                       *)

Digits == {"0", "1", "2", "3", "4", "5", "6", "7", "8", "9"}

\* the characters json's WHITESPACE pattern skips
JsonWhitespace == {" ", "\t", "\n", "\r"}

RECURSIVE SkipWs(_)
SkipWs(s) ==
    IF s # <<>> /\ Head(s) \in JsonWhitespace THEN SkipWs(Tail(s)) ELSE s

JsonFail == [ok |-> FALSE, val |-> None, rest |-> <<>>]
JsonOk(val, rest) == [ok |-> TRUE, val |-> val, rest |-> rest]

\* the longest prefix of s made of digits
RECURSIVE DigitPrefix(_)
DigitPrefix(s) ==
    IF s # <<>> /\ Head(s) \in Digits
    THEN <<Head(s)>> \o DigitPrefix(Tail(s))
    ELSE <<>>

\* the match of NUMBER_RE as a value: text is the whole match
NumberValue(s, text, frac) ==
    JsonOk([t |-> IF frac # <<>> THEN "float" ELSE "int", v |-> text],
           SubSeq(s, Len(text) + 1, Len(s)))

\* the group (\.\d+)? of NUMBER_RE, after being the text past the integer
NumberFraction(after) ==
    IF after # <<>> /\ Head(after) = "." THEN DigitPrefix(Tail(after)) ELSE <<>>

\* the text NUMBER_RE matches, from its sign, integer and fraction
NumberText(s, sign, ds, frac) ==
    IF ds = <<>> THEN JsonFail
    ELSE NumberValue(s, sign \o ds \o (IF frac # <<>> THEN <<".">> \o frac ELSE <<>>), frac)

\* the group (0|[1-9]\d*) of NUMBER_RE, body being the text after the sign
NumberInteger(body) ==
    IF body # <<>> /\ Head(body) = "0" THEN <<"0">> ELSE DigitPrefix(body)

NumberAfterInteger(s, sign, body, ds) ==
    NumberText(s, sign, ds, NumberFraction(SubSeq(body, Len(ds) + 1, Len(body))))

NumberAfterSign(s, sign, body) == NumberAfterInteger(s, sign, body, NumberInteger(body))

\* NUMBER_RE without the exponent: (-?(?:0|[1-9]\d*))(\.\d+)?
ScanNumber(s) ==
    IF s # <<>> /\ Head(s) = "-"
    THEN NumberAfterSign(s, <<"-">>, Tail(s))
    ELSE NumberAfterSign(s, <<>>, s)

\* py_scanstring in strict mode, s being the text after the opening quote
ScanString(s) ==
    IF \A i \in 1..Len(s) : s[i] # "\"" THEN JsonFail
    ELSE LET k == CHOOSE i \in 1..Len(s) :
                      s[i] = "\"" /\ \A j \in 1..(i - 1) : s[j] # "\""
             chunk == SubSeq(s, 1, k - 1)
         IN IF \E i \in 1..Len(chunk) : chunk[i] \in {"\t", "\n", "\r", "\\"}
            THEN JsonFail
            ELSE JsonOk([t |-> "str", v |-> chunk], SubSeq(s, k + 1, Len(s)))

RECURSIVE ScanOnce(_)
RECURSIVE ScanArrayItems(_, _)
RECURSIVE ScanObjectMembers(_, _)

\* JSONArray once an item is scanned: "]" ends the array, "," continues it
ArrayAfterItem(item, after, acc) ==
    IF ~item.ok \/ after = <<>> THEN JsonFail
    ELSE IF Head(after) = "]"
    THEN JsonOk([t |-> "list", v |-> Append(acc, item.val)], Tail(after))
    ELSE IF Head(after) = ","
    THEN ScanArrayItems(SkipWs(Tail(after)), Append(acc, item.val))
    ELSE JsonFail

\* the text after a scanned value and the whitespace that follows it
AfterValue(item) == SkipWs(item.rest)

\* JSONArray: what follows the item just scanned
ArrayItem(item, acc) == ArrayAfterItem(item, AfterValue(item), acc)

\* JSONArray after the first value: s starts at a value
ScanArrayItems(s, acc) == ArrayItem(ScanOnce(s), acc)

\* JSONObject once a member is scanned: "}" ends the object, "," continues it
ObjectAfterMember(item, after, members) ==
    IF ~item.ok \/ after = <<>> THEN JsonFail
    ELSE IF Head(after) = "}"
    THEN JsonOk([t |-> "dict", v |-> members], Tail(after))
    ELSE IF Head(after) = ","
    THEN ScanObjectMembers(SkipWs(Tail(after)), members)
    ELSE JsonFail

\* JSONObject: what follows the value of the member just scanned
ObjectMember(name, item, acc) ==
    ObjectAfterMember(item, AfterValue(item),
                      Append(acc, [key |-> name.val.v, value |-> item.val]))

\* JSONObject once the name of a member is scanned: ":" and a value follow
ObjectAfterName(name, colon, acc) ==
    IF ~name.ok \/ colon = <<>> THEN JsonFail
    ELSE IF Head(colon) # ":" THEN JsonFail
    ELSE ObjectMember(name, ScanOnce(SkipWs(Tail(colon))), acc)

\* JSONObject: what follows the name just scanned
ObjectName(name, acc) == ObjectAfterName(name, AfterValue(name), acc)

\* JSONObject: s starts at the opening quote of a member's name
ScanObjectMembers(s, acc) ==
    IF s = <<>> \/ Head(s) # "\"" THEN JsonFail
    ELSE ObjectName(ScanString(Tail(s)), acc)

\* scanner.py_make_scanner._scan_once
ScanOnce(s) ==
    IF s = <<>> THEN JsonFail
    ELSE CASE Head(s) = "\"" -> ScanString(Tail(s))
           [] Head(s) = "[" ->
                LET inner == SkipWs(Tail(s))
                IN IF inner # <<>> /\ Head(inner) = "]"
                   THEN JsonOk([t |-> "list", v |-> <<>>], Tail(inner))
                   ELSE ScanArrayItems(inner, <<>>)
           [] Head(s) = "{" ->
                LET inner == SkipWs(Tail(s))
                IN IF inner # <<>> /\ Head(inner) = "}"
                   THEN JsonOk([t |-> "dict", v |-> <<>>], Tail(inner))
                   ELSE ScanObjectMembers(inner, <<>>)
           [] StartsWith(s, <<"n", "u", "l", "l">>) ->
                JsonOk(None, SubSeq(s, 5, Len(s)))
           [] StartsWith(s, <<"t", "r", "u", "e">>) ->
                JsonOk([t |-> "bool", v |-> <<"t", "r", "u", "e">>],
                       SubSeq(s, 5, Len(s)))
           [] StartsWith(s, <<"f", "a", "l", "s", "e">>) ->
                JsonOk([t |-> "bool", v |-> <<"f", "a", "l", "s", "e">>],
                       SubSeq(s, 6, Len(s)))
           [] OTHER -> ScanNumber(s)

\* JSONDecoder.decode: nothing but whitespace may follow the value
JsonWhole(r) == IF r.ok /\ SkipWs(r.rest) = <<>> THEN r ELSE JsonFail

\* json.loads(s): ok is FALSE when it raises JSONDecodeError (a ValueError)
JsonLoads(s) == JsonWhole(ScanOnce(SkipWs(s)))

-----------------------------------------------------------------------------
(* Record accessor *)

Min(S) == CHOOSE x \in S : \A y \in S : x <= y

\* _dict.get(key, default)
DictGet(_dict, key, default) == IF key \in DOMAIN _dict THEN _dict[key] ELSE default

\* _get_dict_value with the top-level test dropped: extras are read first
get_dict_value_extras_first(_dict, key, default) ==
    LET extras == DictGet(_dict, "extras", PyList(<<>>)).v
        hits == {i \in 1..Len(extras) :
                    extras[i].key = key \/ extras[i].key = "dcat_" \o key}
    IN IF hits # {} THEN extras[Min(hits)].value
       ELSE IF key \in DOMAIN _dict THEN _dict[key]
       ELSE default

\* RDFProfile._get_dict_value
get_dict_value(_dict, key, default) ==
    IF key \in DOMAIN _dict THEN _dict[key]
    ELSE LET extras == DictGet(_dict, "extras", PyList(<<>>)).v
             hits == {i \in 1..Len(extras) :
                         extras[i].key = key \/ extras[i].key = "dcat_" \o key}
         IN IF hits # {} THEN extras[Min(hits)].value ELSE default

\* isinstance(x, (int, float, complex)): bool is a subclass of int
IsPyNumber(x) == x.t \in {"int", "float", "bool"}

\* [PyStr(p) for p in pieces]
StrItems(pieces) == [i \in 1..Len(pieces) |-> PyStr(pieces[i])]

\* _read_list_value that never wraps a decoded scalar
read_list_value_no_wrap(value) ==
    IF value.t = "list" THEN value
    ELSE IF value.t = "str"
    THEN LET r == JsonLoads(value.v)
         IN IF r.ok THEN r.val
            ELSE IF "," \in Range(value.v)
            THEN PyList(StrItems(Split(value.v, ",")))
            ELSE PyList(<<value>>)
    ELSE PyList(<<>>)

\* _read_list_value on a str, r being the outcome of json.loads(value)
ListOfDecoded(value, r) ==
    IF r.ok
    THEN (IF IsPyNumber(r.val) THEN PyList(<<r.val>>) ELSE r.val)
    ELSE IF "," \in Range(value.v)
    THEN PyList(StrItems(Split(value.v, ",")))
    ELSE PyList(<<value>>)

\* RDFProfile._read_list_value
read_list_value(value) ==
    IF value.t = "list" THEN value
    ELSE IF value.t = "str" THEN ListOfDecoded(value, JsonLoads(value.v))
    ELSE PyList(<<>>)

-----------------------------------------------------------------------------
(* The graph: rdflib.Graph as the code uses it *)

\* _object returning None, where a term is expected
NoTerm == [kind |-> "None", value |-> <<>>, language |-> <<>>, datatype |-> ""]

\* classes of the vocabularies, as the objects of rdf:type
DCAT_Catalog == URIRef(<<"dcat:Catalog">>)
DCAT_Dataset == URIRef(<<"dcat:Dataset">>)
DCAT_Distribution == URIRef(<<"dcat:Distribution">>)
DCAT_DataService == URIRef(<<"dcat:DataService">>)
DCT_IMT == URIRef(<<"dct:IMT">>)
DCT_RightsStatement == URIRef(<<"dct:RightsStatement">>)
DCT_Location == URIRef(<<"dct:Location">>)
XSD_dateTime == "xsd:dateTime"

\* list(self.g.objects(subject, predicate)), in iteration order
RECURSIVE Objects(_, _, _)
Objects(gr, subject, predicate) ==
    IF gr = <<>> THEN <<>>
    ELSE (IF Head(gr)[1] = subject /\ Head(gr)[2] = predicate
          THEN <<Head(gr)[3]>> ELSE <<>>)
         \o Objects(Tail(gr), subject, predicate)

\* list(self.g.subjects(predicate, object)), in iteration order
RECURSIVE Subjects(_, _, _)
Subjects(gr, predicate, object) ==
    IF gr = <<>> THEN <<>>
    ELSE (IF Head(gr)[2] = predicate /\ Head(gr)[3] = object
          THEN <<Head(gr)[1]>> ELSE <<>>)
         \o Subjects(Tail(gr), predicate, object)

\* list(self.g.subjects(predicate)): one entry per matching triple
RECURSIVE SubjectsOf(_, _)
SubjectsOf(gr, predicate) ==
    IF gr = <<>> THEN <<>>
    ELSE (IF Head(gr)[2] = predicate THEN <<Head(gr)[1]>> ELSE <<>>)
         \o SubjectsOf(Tail(gr), predicate)

\* self.g.add(triple): a graph is a set of triples
GraphAdd(gr, triple) ==
    IF \E i \in 1..Len(gr) : gr[i] = triple THEN gr ELSE Append(gr, triple)

\* self.g.add for each triple of a sequence, in order
RECURSIVE GraphAddAll(_, _)
GraphAddAll(gr, triples) ==
    IF triples = <<>> THEN gr
    ELSE GraphAddAll(GraphAdd(gr, Head(triples)), Tail(triples))

-----------------------------------------------------------------------------
(* Graph accessor *)

\* RDFProfile._distributions
distributions(gr, dataset) == Objects(gr, dataset, "dcat:distribution")

\* _object returning the last matching object
object_last(gr, subject, predicate) ==
    LET os == Objects(gr, subject, predicate)
    IN IF os = <<>> THEN NoTerm ELSE os[Len(os)]

\* RDFProfile._object
object(gr, subject, predicate) ==
    LET os == Objects(gr, subject, predicate)
    IN IF os = <<>> THEN NoTerm ELSE os[1]

\* the loop of _object_value over the objects still to visit
RECURSIVE ObjectValueLoop(_, _, _)
ObjectValueLoop(os, default_lang, fallback) ==
    IF os = <<>> THEN fallback
    ELSE LET o == Head(os)
         IN IF o.kind = "Literal"
            THEN IF o.language # <<>> /\ o.language = default_lang
                 THEN Str(o)
                 ELSE IF fallback = <<>>
                 THEN ObjectValueLoop(Tail(os), default_lang, Str(o))
                 ELSE ObjectValueLoop(Tail(os), default_lang, fallback)
            ELSE Str(o)

\* _object_value without the language test: the first object wins
object_value_first(gr, cfg, subject, predicate) ==
    LET os == Objects(gr, subject, predicate)
    IN IF os = <<>> THEN <<>> ELSE Str(os[1])

\* RDFProfile._object_value
object_value(gr, cfg, subject, predicate) ==
    ObjectValueLoop(Objects(gr, subject, predicate), cfg.locale_default, <<>>)

\* RDFProfile._object_value_multiple_predicate
RECURSIVE object_value_multiple_predicate(_, _, _, _)
object_value_multiple_predicate(gr, cfg, subject, predicates) ==
    IF predicates = <<>> THEN <<>>
    ELSE LET object_value_ == object_value(gr, cfg, subject, Head(predicates))
         IN IF object_value_ # <<>> \/ Len(predicates) = 1
            THEN object_value_
            ELSE object_value_multiple_predicate(gr, cfg, subject, Tail(predicates))

\* RDFProfile._object_value_list
object_value_list(gr, subject, predicate) ==
    LET os == Objects(gr, subject, predicate)
    IN [i \in 1..Len(os) |-> Str(os[i])]

\* a non-empty run of digits
AllDigits(s) == s # <<>> /\ \A i \in 1..Len(s) : s[i] \in Digits

\* a run of digits without its leading zeros ("0" for zero)
RECURSIVE StripZeros(_)
StripZeros(s) ==
    IF Len(s) > 1 /\ Head(s) = "0" THEN StripZeros(Tail(s)) ELSE s

\* int(float(text)) for the texts the model's graphs hold: digits, or
\* digits "." digits, is a number (truncated); anything else raises
\* ValueError (None here)
IntOfFloat(text) ==
    LET parts == Split(text, ".")
    IN IF Len(parts) = 1 /\ AllDigits(parts[1])
       THEN PyNum(StripZeros(parts[1]))
       ELSE IF Len(parts) = 2 /\ AllDigits(parts[1] \o parts[2])
                /\ (parts[1] = <<>> \/ AllDigits(parts[1]))
                /\ (parts[2] = <<>> \/ AllDigits(parts[2]))
       THEN PyNum(StripZeros(IF parts[1] = <<>> THEN <<"0">> ELSE parts[1]))
       ELSE None

\* RDFProfile._object_value_int
object_value_int(gr, cfg, subject, predicate) ==
    LET object_value_ == object_value(gr, cfg, subject, predicate)
    IN IF object_value_ # <<>> THEN IntOfFloat(object_value_) ELSE None

\* RDFProfile._access_rights
access_rights(gr, cfg, subject, predicate) ==
    LET obj == object(gr, subject, predicate)
    IN IF obj.kind # "None" /\ TermTruthy(obj)
       THEN IF obj.kind = "BNode" /\ object(gr, obj, "rdf:type") = DCT_RightsStatement
            THEN object_value(gr, cfg, obj, "rdfs:label")
            ELSE IF obj.kind \in {"Literal", "URIRef"} THEN Str(obj)
            ELSE <<>>
       ELSE <<>>

\* str(x) for a term or None
StrOrNone(term) == IF term.kind = "None" THEN <<"N", "o", "n", "e">> ELSE Str(term)

\* "iana.org/assignments/media-types"
IanaMediaTypes ==
    <<"i", "a", "n", "a", ".", "o", "r", "g", "/", "a", "s", "s", "i", "g", "n",
      "m", "e", "n", "t", "s", "/", "m", "e", "d", "i", "a", "-", "t", "y", "p",
      "e", "s">>

\* ckan.lib.helpers.resource_formats(): key -> canonical label (entry [1]);
\* the two entries the model's formats can hit
ResourceFormats ==
    (<<"t", "e", "x", "t", "/", "c", "s", "v">> :> <<"C", "S", "V">>)
    @@ (<<"c", "s", "v">> :> <<"C", "S", "V">>)

\* the normalisation step of _distribution_format (imt, label: Python values)
NormalizeLabel(imt, label) ==
    IF imt.t = "str" /\ imt.v \in DOMAIN ResourceFormats
    THEN PyStr(ResourceFormats[imt.v])
    ELSE IF label.t = "str" /\ label.v \in DOMAIN ResourceFormats
    THEN PyStr(ResourceFormats[label.v])
    ELSE label

\* _distribution_format before normalisation: the pair (imt, label)
DistributionFormatRaw(gr, cfg, distribution) ==
    LET imt0 == PyStr(object_value(gr, cfg, distribution, "dcat:mediaType"))
        format == object(gr, distribution, "dct:format")
    IN IF format.kind = "Literal"
       THEN IF ~Truthy(imt0) /\ "/" \in Range(Str(format))
            THEN <<PyStr(Str(format)), None>>
            ELSE <<imt0, PyStr(Str(format))>>
       ELSE IF format.kind \in {"BNode", "URIRef"}
       THEN IF object(gr, format, "rdf:type") = DCT_IMT
            THEN <<IF ~Truthy(imt0)
                   THEN PyStr(StrOrNone(object(gr, format, "rdf:value")))
                   ELSE imt0,
                   PyStr(StrOrNone(object(gr, format, "rdfs:label")))>>
            ELSE IF format.kind = "URIRef"
            THEN IF IsSubstring(IanaMediaTypes, Str(format)) /\ ~Truthy(imt0)
                 THEN <<PyStr(Str(format)), None>>
                 ELSE <<imt0, PyStr(Str(format))>>
            ELSE <<imt0, None>>
       ELSE <<imt0, None>>

\* RDFProfile._distribution_format
distribution_format(gr, cfg, distribution, normalize_ckan_format) ==
    LET raw == DistributionFormatRaw(gr, cfg, distribution)
        imt == raw[1]
        label == raw[2]
    IN IF (Truthy(imt) \/ Truthy(label)) /\ normalize_ckan_format
       THEN <<imt, NormalizeLabel(imt, label)>>
       ELSE <<imt, label>>

\* json.dumps(text) for a str: quotes, with the escapes of the characters
\* the model's strings can hold
JsonDumpsChar(c) ==
    CASE c = "\"" -> <<"\\", "\"">>
      [] c = "\\" -> <<"\\", "\\">>
      [] c = "\t" -> <<"\\", "t">>
      [] c = "\n" -> <<"\\", "n">>
      [] c = "\r" -> <<"\\", "r">>
      [] OTHER -> <<c>>

RECURSIVE JsonDumpsChars(_)
JsonDumpsChars(text) ==
    IF text = <<>> THEN <<>>
    ELSE JsonDumpsChar(Head(text)) \o JsonDumpsChars(Tail(text))

JsonDumpsStr(text) == <<"\"">> \o JsonDumpsChars(text) \o <<"\"">>

\* json.dumps(values) for a list of str
JsonDumpsList(values) ==
    <<"[">> \o Join([i \in 1..Len(values) |-> JsonDumpsStr(values[i])], <<",", " ">>)
    \o <<"]">>

\* a key of a dict as the characters json.dumps writes
KeyChars(key) ==
    CASE key = "uri" -> <<"u", "r", "i">>
      [] key = "name" -> <<"n", "a", "m", "e">>
      [] key = "email" -> <<"e", "m", "a", "i", "l">>
      [] key = "url" -> <<"u", "r", "l">>
      [] key = "type" -> <<"t", "y", "p", "e">>

\* json.dumps(d) for a dict of str with the keys of `keys`, in that order
JsonDumpsDict(d, keys) ==
    LET present == SelectSeq(keys, LAMBDA k : k \in DOMAIN d)
    IN <<"{">>
       \o Join([i \in 1..Len(present) |->
                   JsonDumpsStr(KeyChars(present[i])) \o <<":", " ">>
                   \o JsonDumpsStr(d[present[i]])],
               <<",", " ">>)
       \o <<"}">>

\* keywords.remove(x): drops the first element equal to x
RemoveFirst(seq, x) ==
    IF \A i \in 1..Len(seq) : seq[i] # x THEN seq
    ELSE LET k == Min({i \in 1..Len(seq) : seq[i] = x})
         IN SubSeq(seq, 1, k - 1) \o SubSeq(seq, k + 1, Len(seq))

\* [k.strip() for k in pieces]
StripAll(pieces) == [i \in 1..Len(pieces) |-> Strip(pieces[i])]

\* the loop of _keywords over keywords_with_commas
RECURSIVE KeywordsLoop(_, _)
KeywordsLoop(keywords, keywords_with_commas) ==
    IF keywords_with_commas = <<>> THEN keywords
    ELSE LET keyword == Head(keywords_with_commas)
         IN KeywordsLoop(RemoveFirst(keywords, keyword) \o StripAll(Split(keyword, ",")),
                         Tail(keywords_with_commas))

\* _keywords that leaves keywords with commas as they are
keywords_no_split(gr, dataset_ref) == object_value_list(gr, dataset_ref, "dcat:keyword")

\* RDFProfile._keywords
keywords(gr, dataset_ref) ==
    LET all == object_value_list(gr, dataset_ref, "dcat:keyword")
    IN KeywordsLoop(all, SelectSeq(all, LAMBDA k : "," \in Range(k)))

\* PREFIX_MAILTO
PrefixMailto == <<"m", "a", "i", "l", "t", "o", ":">>

\* RDFProfile._without_mailto
without_mailto(mail_addr) ==
    IF mail_addr # <<>> THEN Remove(mail_addr, PrefixMailto) ELSE mail_addr

\* RDFProfile._get_vcard_property_value; predicate_string_property "" is None
get_vcard_property_value(gr, cfg, subject, predicate, predicate_string_property) ==
    LET result == IF predicate_string_property # ""
                  THEN object_value(gr, cfg, subject, predicate_string_property)
                  ELSE <<>>
        obj == object(gr, subject, predicate)
    IN IF result # <<>> THEN result
       ELSE IF obj.kind = "BNode"
       THEN object_value(gr, cfg, obj, "vcard:hasValue")
       ELSE object_value(gr, cfg, subject, predicate)

\* the body of the loop of _publisher for one agent
PublisherOf(gr, cfg, agent) ==
    [uri |-> IF agent.kind = "URIRef" THEN Str(agent) ELSE <<>>,
     name |-> object_value(gr, cfg, agent, "foaf:name"),
     email |-> object_value(gr, cfg, agent, "foaf:mbox"),
     url |-> object_value(gr, cfg, agent, "foaf:homepage"),
     type |-> object_value(gr, cfg, agent, "dct:type")]

\* a loop that keeps, field by field, the last non-empty value
RECURSIVE PublisherLoopPerField(_, _, _, _)
PublisherLoopPerField(gr, cfg, agents, publisher_) ==
    IF agents = <<>> THEN publisher_
    ELSE PublisherLoopPerField(
             gr, cfg, Tail(agents),
             [k \in {"uri", "name", "email", "url", "type"} |->
                 IF PublisherOf(gr, cfg, Head(agents))[k] # <<>>
                 THEN PublisherOf(gr, cfg, Head(agents))[k]
                 ELSE IF k \in DOMAIN publisher_ THEN publisher_[k] ELSE <<>>])

\* RDFProfile._publisher: every agent assigns all five keys
RECURSIVE PublisherLoop(_, _, _, _)
PublisherLoop(gr, cfg, agents, publisher_) ==
    IF agents = <<>> THEN publisher_
    ELSE PublisherLoop(gr, cfg, Tail(agents),
                       PublisherOf(gr, cfg, Head(agents)) @@ publisher_)

publisher(gr, cfg, subject, predicate) ==
    PublisherLoop(gr, cfg, Objects(gr, subject, predicate), EmptyDict)

\* the body of the loop of _contact_details for one agent
ContactOf(gr, cfg, agent) ==
    [uri |-> IF agent.kind = "URIRef" THEN Str(agent) ELSE <<>>,
     name |-> get_vcard_property_value(gr, cfg, agent, "vcard:hasFN", "vcard:fn"),
     email |-> without_mailto(
                  get_vcard_property_value(gr, cfg, agent, "vcard:hasEmail", ""))]

\* RDFProfile._contact_details
RECURSIVE ContactLoop(_, _, _, _)
ContactLoop(gr, cfg, agents, contact) ==
    IF agents = <<>> THEN contact
    ELSE ContactLoop(gr, cfg, Tail(agents), ContactOf(gr, cfg, Head(agents)) @@ contact)

contact_details(gr, cfg, subject, predicate) ==
    ContactLoop(gr, cfg, Objects(gr, subject, predicate), EmptyDict)

\* a (start, end) pair has a truthy component
PairTruthy(pair) == Truthy(pair[1]) \/ Truthy(pair[2])

\* the loop shared by _read_time_interval_schema_org and _read_time_interval_dcat
RECURSIVE ReadIntervalLoop(_, _, _, _, _, _)
ReadIntervalLoop(gr, cfg, intervals, start_predicate, end_predicate, pair) ==
    IF intervals = <<>> THEN pair
    ELSE LET found == <<PyStr(object_value(gr, cfg, Head(intervals), start_predicate)),
                        PyStr(object_value(gr, cfg, Head(intervals), end_predicate))>>
         IN IF PairTruthy(found) THEN found
            ELSE ReadIntervalLoop(gr, cfg, Tail(intervals), start_predicate,
                                  end_predicate, found)

\* RDFProfile._read_time_interval_schema_org
read_time_interval_schema_org(gr, cfg, subject, predicate) ==
    ReadIntervalLoop(gr, cfg, Objects(gr, subject, predicate),
                     "schema:startDate", "schema:endDate", <<None, None>>)

\* RDFProfile._read_time_interval_dcat
read_time_interval_dcat(gr, cfg, subject, predicate) ==
    ReadIntervalLoop(gr, cfg, Objects(gr, subject, predicate),
                     "dcat:startDate", "dcat:endDate", <<None, None>>)

TimeDatePredicates == <<"time:inXSDDateTimeStamp", "time:inXSDDateTime", "time:inXSDDate">>

\* RDFProfile._read_time_interval_time
RECURSIVE ReadIntervalTimeLoop(_, _, _, _)
ReadIntervalTimeLoop(gr, cfg, intervals, pair) ==
    IF intervals = <<>> THEN pair
    ELSE LET start_nodes == Objects(gr, Head(intervals), "time:hasBeginning")
             end_nodes == Objects(gr, Head(intervals), "time:hasEnd")
             found ==
                <<IF start_nodes # <<>>
                  THEN PyStr(object_value_multiple_predicate(
                                 gr, cfg, start_nodes[1], TimeDatePredicates))
                  ELSE pair[1],
                  IF end_nodes # <<>>
                  THEN PyStr(object_value_multiple_predicate(
                                 gr, cfg, end_nodes[1], TimeDatePredicates))
                  ELSE pair[2]>>
         IN IF PairTruthy(found) THEN found
            ELSE ReadIntervalTimeLoop(gr, cfg, Tail(intervals), found)

read_time_interval_time(gr, cfg, subject, predicate) ==
    ReadIntervalTimeLoop(gr, cfg, Objects(gr, subject, predicate), <<None, None>>)

\* a resolution that reads schema.org first whatever the version
time_interval_schema_first(gr, cfg, subject, predicate, dcat_ap_version) ==
    LET so == read_time_interval_schema_org(gr, cfg, subject, predicate)
        tm == read_time_interval_time(gr, cfg, subject, predicate)
    IN IF PairTruthy(so) THEN so
       ELSE IF PairTruthy(tm) \/ dcat_ap_version = 1 THEN tm
       ELSE read_time_interval_dcat(gr, cfg, subject, predicate)

\* RDFProfile._time_interval
time_interval(gr, cfg, subject, predicate, dcat_ap_version) ==
    IF dcat_ap_version = 1
    THEN LET so == read_time_interval_schema_org(gr, cfg, subject, predicate)
         IN IF PairTruthy(so) THEN so
            ELSE read_time_interval_time(gr, cfg, subject, predicate)
    ELSE LET dc == read_time_interval_dcat(gr, cfg, subject, predicate)
             tm == read_time_interval_time(gr, cfg, subject, predicate)
         IN IF PairTruthy(dc) THEN dc
            ELSE IF PairTruthy(tm) THEN tm
            ELSE read_time_interval_schema_org(gr, cfg, subject, predicate)

\* d[key] = value
DictSet(d, key, value) == (key :> value) @@ d

\* d['extras'].append({'key': key, 'value': value})
ExtrasAppend(d, key, value) ==
    [d EXCEPT !["extras"] = PyList(Append(@.v, [key |-> key, value |-> value]))]

\* datatypes of the geometry literals
GEOJSON_IMT == "iana:application/vnd.geo+json"
GSP_wktLiteral == "gsp:wktLiteral"

\* json.dumps(geomet.wkt.loads(text)) and geomet.wkt.dumps(json.loads(text),
\* decimals=4) for the one geometry of the model's graphs and records; any
\* other text raises an exception the callers catch (None here)
WktPoint == <<"P", "O", "I", "N", "T", " ", "(", "1", " ", "1", ")">>
WktPoint4 ==
    <<"P", "O", "I", "N", "T", " ", "(", "1", ".", "0", "0", "0", "0", " ",
      "1", ".", "0", "0", "0", "0", ")">>
WktPointGeoJson ==
    <<"{", "\"", "t", "y", "p", "e", "\"", ":", " ", "\"", "P", "o", "i", "n", "t",
      "\"", ",", " ", "\"", "c", "o", "o", "r", "d", "i", "n", "a", "t", "e", "s",
      "\"", ":", " ", "[", "1", ".", "0", ",", " ", "1", ".", "0", "]", "}">>
WktToGeoJson(text) ==
    IF text \in {WktPoint, WktPoint4} THEN PyStr(WktPointGeoJson) ELSE None
GeoJsonToWkt(text) == IF text = WktPointGeoJson THEN PyStr(WktPoint4) ELSE None

\* the body of the loop of _parse_geodata for one geometry literal
GeodataFromWkt(geometry, as_json, converted) ==
    IF ~Truthy(as_json) /\ geometry.datatype = GSP_wktLiteral /\ converted.t = "str"
    THEN converted
    ELSE as_json

\* a loop body that keeps a value it already has
ParseGeodataStepFirst(geometry, cur_value) ==
    GeodataFromWkt(geometry,
                   IF /\ ~Truthy(cur_value)
                      /\ geometry.datatype \in {GEOJSON_IMT, ""}
                      /\ JsonLoads(Str(geometry)).ok
                   THEN PyStr(Str(geometry))
                   ELSE cur_value,
                   WktToGeoJson(Str(geometry)))

ParseGeodataStep(geometry, cur_value) ==
    GeodataFromWkt(geometry,
                   IF geometry.datatype \in {GEOJSON_IMT, ""} /\ JsonLoads(Str(geometry)).ok
                   THEN PyStr(Str(geometry))
                   ELSE cur_value,
                   WktToGeoJson(Str(geometry)))

\* RDFProfile._parse_geodata (the geometries of the model's graphs are literals)
RECURSIVE ParseGeodataLoop(_, _)
ParseGeodataLoop(geometries, cur_value) ==
    IF geometries = <<>> THEN cur_value
    ELSE ParseGeodataLoop(Tail(geometries), ParseGeodataStep(Head(geometries), cur_value))

parse_geodata(gr, spatial_, datatype, cur_value) ==
    ParseGeodataLoop(Objects(gr, spatial_, datatype), cur_value)

\* the last element of a sequence of terms as a str, or cur when it is empty
LastText(os, cur) == IF os = <<>> THEN cur ELSE PyStr(Str(os[Len(os)]))

\* the body of the loop of _spatial for one object of the predicate
SpatialStep(gr, spatial_, acc) ==
    LET uri == IF spatial_.kind = "URIRef" THEN PyStr(Str(spatial_)) ELSE acc.uri
        text == IF spatial_.kind = "Literal" THEN PyStr(Str(spatial_)) ELSE acc.text
    IN IF \E i \in 1..Len(gr) : gr[i] = <<spatial_, "rdf:type", DCT_Location>>
       THEN [uri |-> uri,
             text |-> LastText(Objects(gr, spatial_, "rdfs:label"),
                               LastText(Objects(gr, spatial_, "skos:prefLabel"), text)),
             geom |-> parse_geodata(gr, spatial_, "locn:geometry", acc.geom),
             bbox |-> parse_geodata(gr, spatial_, "dcat:bbox", acc.bbox),
             centroid |-> parse_geodata(gr, spatial_, "dcat:centroid", acc.centroid)]
       ELSE [acc EXCEPT !.uri = uri, !.text = text]

\* RDFProfile._spatial
RECURSIVE SpatialLoop(_, _, _)
SpatialLoop(gr, spatials, acc) ==
    IF spatials = <<>> THEN acc
    ELSE SpatialLoop(gr, Tail(spatials), SpatialStep(gr, Head(spatials), acc))

spatial(gr, subject, predicate) ==
    SpatialLoop(gr, Objects(gr, subject, predicate),
                [uri |-> None, text |-> None, geom |-> None, bbox |-> None,
                 centroid |-> None])

\* the position of the last license of the register with the given value
\* of a field (a later license overwrites an earlier one in the dict)
LastWith(register, field, value) ==
    CHOOSE i \in 1..Len(register) :
        /\ register[i][field] = value
        /\ \A j \in (i + 1)..Len(register) : register[j][field] # value

\* the two dicts _license builds from LicenseRegister().items()
BuildLicenseMaps(register) ==
    [t |-> "tuple",
     v |-> <<[u \in {register[i].url : i \in 1..Len(register)} |->
                 register[LastWith(register, "url", u)].id],
             [ti \in {register[i].title : i \in 1..Len(register)} |->
                 register[LastWith(register, "title", ti)].id]>>]

\* the body of the loop of _license: the license id found for one
\* distribution, "" when it has no license or none the register knows
LicenseIdOf(gr, cfg, maps, distribution) ==
    LET license_ == object(gr, distribution, "dct:license")
        by_uri == IF Str(license_) \in DOMAIN maps[1] THEN maps[1][Str(license_)] ELSE <<>>
        title == object_value(gr, cfg, license_, "dct:title")
        by_title == IF title \in DOMAIN maps[2] THEN maps[2][title] ELSE <<>>
    IN IF license_.kind # "None" /\ TermTruthy(license_)
       THEN (IF by_uri # <<>> THEN by_uri ELSE by_title)
       ELSE <<>>

\* the loop of _license returning the last match instead of the first
RECURSIVE LicenseLoopLast(_, _, _, _)
LicenseLoopLast(gr, cfg, maps, dists) ==
    IF dists = <<>> THEN <<>>
    ELSE LET license_id == LicenseIdOf(gr, cfg, maps, dists[Len(dists)])
         IN IF license_id # <<>> THEN license_id
            ELSE LicenseLoopLast(gr, cfg, maps, SubSeq(dists, 1, Len(dists) - 1))

\* the loop of _license over the distributions still to visit
RECURSIVE LicenseLoop(_, _, _, _)
LicenseLoop(gr, cfg, maps, dists) ==
    IF dists = <<>> THEN <<>>
    ELSE LET license_id == LicenseIdOf(gr, cfg, maps, Head(dists))
         IN IF license_id # <<>> THEN license_id
            ELSE LicenseLoop(gr, cfg, maps, Tail(dists))

\* a _license that reads the register on every call
LicenseCacheFresh(cache, register) == BuildLicenseMaps(register)

\* self._licenceregister_cache after _license ran
LicenseCacheAfter(cache, register) ==
    IF cache.t # "NoneType" THEN cache ELSE BuildLicenseMaps(register)

\* RDFProfile._license: the value returned
license(gr, cfg, cache, register, dataset_ref) ==
    LicenseLoop(gr, cfg, LicenseCacheAfter(cache, register).v,
                distributions(gr, dataset_ref))

\* a call's outcome: the exception raised ("" for none) and the value returned
Outcome(exc, val) == [exc |-> exc, val |-> val]

\* a root lookup that prefers the nodes typed dcat:Catalog
get_root_catalog_ref_typed(gr) ==
    LET typed == Subjects(gr, "rdf:type", DCAT_Catalog)
        roots == IF typed # <<>> THEN typed ELSE SubjectsOf(gr, "dct:hasPart")
    IN IF roots = <<>> THEN Outcome("IndexError", NoTerm) ELSE Outcome("", roots[1])

\* RDFProfile._get_root_catalog_ref
get_root_catalog_ref(gr) ==
    LET has_part == SubjectsOf(gr, "dct:hasPart")
        roots == IF has_part # <<>> THEN has_part
                 ELSE Subjects(gr, "rdf:type", DCAT_Catalog)
    IN IF roots = <<>> THEN Outcome("IndexError", NoTerm) ELSE Outcome("", roots[1])

\* _get_source_catalog without the assertion: one of the catalogs is picked
get_source_catalog_no_assert(gr, cfg, dataset_ref) ==
    IF ~cfg.expose_subcatalogs THEN Outcome("", NoTerm)
    ELSE LET root == get_root_catalog_ref(gr)
             catalogs == Range(Subjects(gr, "dcat:dataset", dataset_ref)) \ {root.val}
         IN IF root.exc # "" THEN root
            ELSE IF catalogs # {} THEN Outcome("", CHOOSE c \in catalogs : TRUE)
            ELSE root

\* RDFProfile._get_source_catalog
get_source_catalog(gr, cfg, dataset_ref) ==
    IF ~cfg.expose_subcatalogs THEN Outcome("", NoTerm)
    ELSE LET root == get_root_catalog_ref(gr)
             catalogs == Range(Subjects(gr, "dcat:dataset", dataset_ref)) \ {root.val}
         IN IF root.exc # "" THEN root
            ELSE IF Cardinality(catalogs) \notin {0, 1} THEN Outcome("AssertionError", NoTerm)
            ELSE IF catalogs # {} THEN Outcome("", CHOOSE c \in catalogs : TRUE)
            ELSE root

\* the loop of _extract_catalog_dict over sources
RECURSIVE CatalogSources(_, _, _, _)
CatalogSources(gr, cfg, catalog_ref, sources) ==
    IF sources = <<>> THEN <<>>
    ELSE LET val == object_value(gr, cfg, catalog_ref, Head(sources)[2])
         IN (IF val # <<>> THEN <<[key |-> Head(sources)[1], value |-> PyStr(val)]>>
             ELSE <<>>)
            \o CatalogSources(gr, cfg, catalog_ref, Tail(sources))

PublisherKeys == <<"uri", "name", "email", "url", "type">>

\* RDFProfile._extract_catalog_dict
extract_catalog_dict(gr, cfg, catalog_ref) ==
    CatalogSources(gr, cfg, catalog_ref,
                   <<<<"source_catalog_title", "dct:title">>,
                     <<"source_catalog_description", "dct:description">>,
                     <<"source_catalog_homepage", "foaf:homepage">>,
                     <<"source_catalog_language", "dct:language">>,
                     <<"source_catalog_modified", "dct:modified">>>>)
    \o <<[key |-> "source_catalog_publisher",
          value |-> PyStr(JsonDumpsDict(publisher(gr, cfg, catalog_ref, "dct:publisher"),
                                        PublisherKeys))]>>

\* the printable ASCII characters in code point order (sorted() compares
\* str by code point)
AsciiOrder ==
    <<"\t", "\n", "\r", " ", "!", "\"", "#", "$", "%", "&", "'", "(", ")", "*", "+", ",",
      "-", ".", "/", "0", "1", "2", "3", "4", "5", "6", "7", "8", "9", ":", ";",
      "<", "=", ">", "?", "@", "A", "B", "C", "D", "E", "F", "G", "H", "I", "J",
      "K", "L", "M", "N", "O", "P", "Q", "R", "S", "T", "U", "V", "W", "X", "Y",
      "Z", "[", "\\", "]", "^", "_", "BACKTICK", "a", "b", "c", "d", "e", "f",
      "g", "h", "i", "j", "k", "l", "m", "n", "o", "p", "q", "r", "s", "t", "u",
      "v", "w", "x", "y", "z", "{", "|", "}", "~">>

CodePoint(c) == CHOOSE i \in 1..Len(AsciiOrder) : AsciiOrder[i] = c

\* a <= b for two str
RECURSIVE StrLeq(_, _)
StrLeq(a, b) ==
    IF a = <<>> THEN TRUE
    ELSE IF b = <<>> THEN FALSE
    ELSE IF Head(a) = Head(b) THEN StrLeq(Tail(a), Tail(b))
    ELSE CodePoint(Head(a)) < CodePoint(Head(b))

\* sorted(items) for a list of str
RECURSIVE SortedStrs(_)
SortedStrs(items) ==
    IF items = <<>> THEN <<>>
    ELSE LET k == CHOOSE i \in 1..Len(items) :
                      /\ \A j \in 1..Len(items) : StrLeq(items[i], items[j])
                      /\ \A j \in 1..(i - 1) : items[j] # items[i]
         IN <<items[k]>>
            \o SortedStrs(SubSeq(items, 1, k - 1) \o SubSeq(items, k + 1, Len(items)))

\* str(n) for a natural number
RECURSIVE NatToStr(_)
NatToStr(n) ==
    LET digit == <<"0", "1", "2", "3", "4", "5", "6", "7", "8", "9">>[(n % 10) + 1]
    IN IF n < 10 THEN <<digit>> ELSE Append(NatToStr(n \div 10), digit)

\* BNode(): a blank node no triple of the graph mentions.  Every caller adds
\* a triple about the node before it makes the next one, so the size of the
\* graph names it.
FreshBNode(gr) == BNode(<<"N">> \o NatToStr(Len(gr)))

-----------------------------------------------------------------------------
(* URIRefOrLiteral and the triple writers *)

\* URIRefOrLiteral(value) for a str: after cleaning, n3() finds no invalid
\* character, so the URIRef is always the one returned
URIRefOrLiteral(value) ==
    IF StartsWith(Strip(value), <<"h", "t", "t", "p", ":", "/", "/">>) \/ StartsWith(Strip(value), <<"h", "t", "t", "p", "s", ":", "/", "/">>)
    THEN CleanedURIRef(value)
    ELSE Literal(value)

\* Literal(value) for a Python value: rdflib types an int and a bool
LiteralOf(value) ==
    CASE value.t = "str" -> Literal(value.v)
      [] value.t = "int" -> LiteralTyped(value.v, "xsd:integer")
      [] value.t = "float" -> LiteralTyped(value.v, "xsd:double")
      [] value.t = "bool" -> LiteralTyped(value.v, "xsd:boolean")
      [] value.t = "NoneType" -> Literal(<<"N", "o", "n", "e">>)

\* _type(value) / _type(value, datatype=_datatype): _type is "Literal",
\* "URIRef" (replaced by CleanedURIRef) or "URIRefOrLiteral"; _datatype ""
\* is None.  A value that is no str has no strip(): URIRefOrLiteral falls
\* back to Literal(value).
MakeObject(_type, _datatype, value) ==
    IF _datatype # "" THEN LiteralTyped(value.v, _datatype)
    ELSE IF value.t # "str"
    THEN (IF _type = "URIRef" THEN URIRef(value.v) ELSE LiteralOf(value))
    ELSE CASE _type = "Literal" -> Literal(value.v)
           [] _type = "URIRef" -> CleanedURIRef(value.v)
           [] _type = "URIRefOrLiteral" -> URIRefOrLiteral(value.v)

\* the datetime read from the parts of a date text: the date fields, the
\* time fields (none without a time), the missing ones from the default
DateOf(halves, date, time) ==
    IF /\ Len(date) \in 1..3
       /\ Len(date[1]) = 4 /\ AllDigits(date[1])
       /\ \A i \in 2..Len(date) : Len(date[i]) = 2 /\ AllDigits(date[i])
       /\ \/ Len(halves) = 1
          \/ /\ Len(halves) = 2 /\ Len(date) = 3 /\ Len(time) = 3
             /\ \A i \in 1..3 : Len(time[i]) = 2 /\ AllDigits(time[i])
    THEN [ok |-> TRUE,
          year |-> date[1],
          month |-> IF Len(date) >= 2 THEN date[2] ELSE <<"0", "1">>,
          day |-> IF Len(date) >= 3 THEN date[3] ELSE <<"0", "1">>,
          hour |-> IF time # <<>> THEN time[1] ELSE <<"0", "0">>,
          minute |-> IF time # <<>> THEN time[2] ELSE <<"0", "0">>,
          second |-> IF time # <<>> THEN time[3] ELSE <<"0", "0">>]
    ELSE [ok |-> FALSE]

\* the date text before "T" and the time text after it, split into fields
DateOfHalves(halves) ==
    DateOf(halves, Split(halves[1], "-"),
           IF Len(halves) = 2 THEN Split(halves[2], ":") ELSE <<>>)

\* dateutil.parser.parse(value, default=datetime(1, 1, 1, 0, 0, 0)) for the
\* date texts of the model, "YYYY[-MM[-DD[THH:MM:SS]]]" with months, days
\* and times in range: the components read, the missing ones taken from
\* the default.  ok is FALSE when it raises ValueError.
parse_date(value) == DateOfHalves(Split(value, "T"))

\* datetime.isoformat()
isoformat(_date) ==
    _date.year \o <<"-">> \o _date.month \o <<"-">> \o _date.day \o <<"T">>
    \o _date.hour \o <<":">> \o _date.minute \o <<":">> \o _date.second

\* _add_date_triple that keeps the text it was given
add_date_triple_raw(gr, subject, predicate, value) ==
    IF ~Truthy(value) THEN gr
    ELSE GraphAdd(gr, <<subject, predicate, Literal(value.v)>>)

\* the object _add_date_triple writes: the parsed date in ISO format, or
\* the text as it is when it cannot be parsed
DateObject(value, _date) ==
    IF _date.ok THEN LiteralTyped(isoformat(_date), XSD_dateTime)
    ELSE Literal(value.v)

\* RDFProfile._add_date_triple (_type is Literal at every call site)
add_date_triple(gr, subject, predicate, value) ==
    IF ~Truthy(value) THEN gr
    ELSE GraphAdd(gr, <<subject, predicate, DateObject(value, parse_date(value.v))>>)

\* a writer's outcome: the exception raised ("" for none) and the graph
Wrote(exc, gr) == [exc |-> exc, g |-> gr]

\* the items `for item in items` visits: the elements of a list, the
\* characters of a str, the keys of a dict
IterItems(items) ==
    CASE items.t = "list" -> items.v
      [] items.t = "str" -> [i \in 1..Len(items.v) |-> PyStr(<<items.v[i]>>)]
      [] items.t = "dict" -> [i \in 1..Len(items.v) |-> PyStr(items.v[i].key)]

\* the loop of _add_list_triple
RECURSIVE AddListItems(_, _, _, _, _, _)
AddListItems(gr, subject, predicate, items, _type, _datatype) ==
    IF items = <<>> THEN gr
    ELSE AddListItems(GraphAdd(gr, <<subject, predicate,
                                     MakeObject(_type, _datatype, Head(items))>>),
                      subject, predicate, Tail(items), _type, _datatype)

\* the loop of _add_list_triple over what _read_list_value returned:
\* iterating None raises TypeError
AddItems(gr, subject, predicate, items, _type, _datatype) ==
    IF items.t = "NoneType" THEN Wrote("TypeError", gr)
    ELSE Wrote("", AddListItems(gr, subject, predicate, IterItems(items),
                                _type, _datatype))

\* RDFProfile._add_list_triple
add_list_triple(gr, subject, predicate, value, _type, _datatype) ==
    AddItems(gr, subject, predicate, read_list_value(value), _type, _datatype)

\* RDFProfile._without_mailto is defined above; RDFProfile._add_mailto
add_mailto(mail_addr) ==
    IF mail_addr # <<>> THEN PrefixMailto \o without_mailto(mail_addr) ELSE mail_addr

RECURSIVE FallbackValue(_, _, _)

\* one round of the fallback loop: found is the value of the fallback
FallbackFound(_dict, fallbacks, found) ==
    IF Truthy(found) THEN found ELSE FallbackValue(_dict, fallbacks, found)

\* the fallback loop of _add_triple_from_dict: the first truthy value, or
\* the value of the last fallback
FallbackValue(_dict, fallbacks, value) ==
    IF fallbacks = <<>> THEN value
    ELSE FallbackFound(_dict, Tail(fallbacks),
                       get_dict_value(_dict, Head(fallbacks), None))

\* if not value and fallbacks: the fallback loop
ValueOrFallback(_dict, fallbacks, value) ==
    IF ~Truthy(value) THEN FallbackValue(_dict, fallbacks, value) ELSE value

\* if value_modifier and callable(value_modifier): value = value_modifier(value)
ModifiedValue(value, value_modifier) ==
    IF Truthy(value) /\ value_modifier = "_add_mailto" THEN PyStr(add_mailto(value.v))
    ELSE value

\* a dispatch that tries the date mode before the list mode
AddValueDateFirst(gr, subject, predicate, value, list_value, date_value, _type, _datatype) ==
    IF ~Truthy(value) THEN Wrote("", gr)
    ELSE IF date_value
    THEN Wrote("", add_date_triple(gr, subject, predicate, value))
    ELSE IF list_value
    THEN add_list_triple(gr, subject, predicate, value, _type, _datatype)
    ELSE Wrote("", GraphAdd(gr, <<subject, predicate,
                                  MakeObject(_type, _datatype, value)>>))

\* _add_triple_from_dict once the value is settled
AddValue(gr, subject, predicate, value, list_value, date_value, _type, _datatype) ==
    IF ~Truthy(value) THEN Wrote("", gr)
    ELSE IF list_value
    THEN add_list_triple(gr, subject, predicate, value, _type, _datatype)
    ELSE IF date_value
    THEN Wrote("", add_date_triple(gr, subject, predicate, value))
    ELSE Wrote("", GraphAdd(gr, <<subject, predicate,
                                  MakeObject(_type, _datatype, value)>>))

\* RDFProfile._add_triple_from_dict; value_modifier is "_add_mailto" or ""
add_triple_from_dict(gr, _dict, subject, predicate, key, fallbacks, list_value, date_value, _type, _datatype, value_modifier) ==
    AddValue(gr, subject, predicate,
             ModifiedValue(ValueOrFallback(_dict, fallbacks,
                                           get_dict_value(_dict, key, None)),
                           value_modifier),
             list_value, date_value, _type, _datatype)

RECURSIVE add_triples_from_dict(_, _, _, _, _, _)

\* the loop of _add_triples_from_dict after one item: an exception ends it
AddNextTriples(w, _dict, subject, items, list_value, date_value) ==
    IF w.exc # "" THEN w
    ELSE add_triples_from_dict(w.g, _dict, subject, items, list_value, date_value)

\* RDFProfile._add_triples_from_dict; an item is <<key, predicate, fallbacks, _type>>
add_triples_from_dict(gr, _dict, subject, items, list_value, date_value) ==
    IF items = <<>> THEN Wrote("", gr)
    ELSE AddNextTriples(add_triple_from_dict(gr, _dict, subject, Head(items)[2],
                                             Head(items)[1], Head(items)[3], list_value,
                                             date_value, Head(items)[4], "", ""),
                        _dict, subject, Tail(items), list_value, date_value)

\* g.add(triple) under a condition
AddIf(cond, gr, triple) == IF cond THEN GraphAdd(gr, triple) ELSE gr

\* the WKT triple of _add_spatial_value_to_graph, when the GeoJSON converts
AddWkt(gr, spatial_ref, predicate, as_wkt) ==
    AddIf(as_wkt.t = "str", gr,
          <<spatial_ref, predicate, LiteralTyped(as_wkt.v, GSP_wktLiteral)>>)

\* RDFProfile._add_spatial_value_to_graph
add_spatial_value_to_graph(gr, spatial_ref, predicate, value) ==
    AddWkt(GraphAdd(gr, <<spatial_ref, predicate, LiteralTyped(value, GEOJSON_IMT)>>),
           spatial_ref, predicate, GeoJsonToWkt(value))

\* the first truthy term of a sequence, NoTerm when there is none
RECURSIVE FirstTruthyTerm(_)
FirstTruthyTerm(terms) ==
    IF terms = <<>> THEN NoTerm
    ELSE IF TermTruthy(Head(terms)) THEN Head(terms)
    ELSE FirstTruthyTerm(Tail(terms))

\* _get_or_create_spatial_ref: the node, existing being the one in the graph
SpatialRefOr(gr, existing, spatial_uri) ==
    IF existing.kind # "None" THEN existing
    ELSE IF Truthy(spatial_uri) THEN CleanedURIRef(spatial_uri.v)
    ELSE FreshBNode(gr)

\* a node made anew whatever location the dataset has in the graph
spatial_ref_anew(gr, dataset_dict_, dataset_ref) ==
    SpatialRefOr(gr, NoTerm, get_dict_value(dataset_dict_, "spatial_uri", None))

\* RDFProfile._get_or_create_spatial_ref: the node
spatial_ref_of(gr, dataset_dict_, dataset_ref) ==
    SpatialRefOr(gr, FirstTruthyTerm(Objects(gr, dataset_ref, "dct:spatial")),
                 get_dict_value(dataset_dict_, "spatial_uri", None))

\* RDFProfile._get_or_create_spatial_ref: the graph it leaves
get_or_create_spatial_ref(gr, dataset_dict_, dataset_ref, spatial_ref) ==
    IF FirstTruthyTerm(Objects(gr, dataset_ref, "dct:spatial")).kind # "None" THEN gr
    ELSE GraphAddAll(gr, << <<spatial_ref, "rdf:type", DCT_Location>>,
                            <<dataset_ref, "dct:spatial", spatial_ref>> >>)

-----------------------------------------------------------------------------
(* EuropeanDCATAPProfile.parse_dataset *)

\* LicenseRegister().items(): the licenses of the CKAN instance
LicenseRegisterItems ==
    <<[id |-> <<"c", "c", "-", "b", "y">>, url |-> <<"h", "t", "t", "p", ":", "/", "/", "l", "/", "b", "y">>, title |-> <<"B", "Y">>],
      [id |-> <<"c", "c", "-", "z", "e", "r", "o">>, url |-> <<"h", "t", "t", "p", ":", "/", "/", "l", "/", "z", "e", "r", "o">>, title |-> <<"Z", "E", "R", "O">>]>>

\* if value: d[key] = value, for a str given by its text
SetIfText(d, key, text) == IF text # <<>> THEN DictSet(d, key, PyStr(text)) ELSE d

\* if value: d[key] = value
SetIfTruthy(d, key, value) == IF Truthy(value) THEN DictSet(d, key, value) ELSE d

\* for key, predicate in fields: value = _object_value(...); if value: d[key] = value
RECURSIVE SetFromGraph(_, _, _, _, _)
SetFromGraph(gr, cfg, d, subject, fields) ==
    IF fields = <<>> THEN d
    ELSE SetFromGraph(gr, cfg,
                      SetIfText(d, Head(fields)[1],
                                object_value(gr, cfg, subject, Head(fields)[2])),
                      subject, Tail(fields))

\* for key, predicate in fields: values = _object_value_list(...);
\* if values: d[key] = json.dumps(values)
RECURSIVE SetListsFromGraph(_, _, _, _)
SetListsFromGraph(gr, d, subject, fields) ==
    IF fields = <<>> THEN d
    ELSE LET values == object_value_list(gr, subject, Head(fields)[2])
         IN SetListsFromGraph(gr,
                IF values # <<>>
                THEN DictSet(d, Head(fields)[1], PyStr(JsonDumpsList(values)))
                ELSE d,
                subject, Tail(fields))

\* the extras entries for the simple values of the dataset
RECURSIVE SimpleExtras(_, _, _, _)
SimpleExtras(gr, cfg, subject, fields) ==
    IF fields = <<>> THEN <<>>
    ELSE LET value == object_value(gr, cfg, subject, Head(fields)[2])
         IN (IF value # <<>> THEN <<[key |-> Head(fields)[1], value |-> PyStr(value)]>>
             ELSE <<>>)
            \o SimpleExtras(gr, cfg, subject, Tail(fields))

\* the extras entries for the list values of the dataset
RECURSIVE ListExtras(_, _, _)
ListExtras(gr, subject, fields) ==
    IF fields = <<>> THEN <<>>
    ELSE LET values == object_value_list(gr, subject, Head(fields)[2])
         IN (IF values # <<>>
             THEN <<[key |-> Head(fields)[1], value |-> PyStr(JsonDumpsList(values))]>>
             ELSE <<>>)
            \o ListExtras(gr, subject, Tail(fields))

\* the extras entries for the non-empty values of d under the given keys
RECURSIVE PrefixedExtras(_, _, _)
PrefixedExtras(d, prefix, keys) ==
    IF keys = <<>> THEN <<>>
    ELSE (IF DictGet(d, Head(keys), <<>>) # <<>>
          THEN <<[key |-> prefix \o Head(keys), value |-> PyStr(d[Head(keys)])]>>
          ELSE <<>>)
         \o PrefixedExtras(d, prefix, Tail(keys))

\* d['extras'].extend(entries)
ExtrasExtend(d, entries) == [d EXCEPT !["extras"] = PyList(@.v \o entries)]

DatasetBasicFields ==
    <<<<"title", "dct:title">>, <<"notes", "dct:description">>,
      <<"url", "dcat:landingPage">>, <<"private", "dct:private">>,
      <<"version", "owl:versionInfo">>>>

DatasetSimpleExtras ==
    <<<<"issued", "dct:issued">>, <<"modified", "dct:modified">>,
      <<"identifier", "dct:identifier">>, <<"version_notes", "adms:versionNotes">>,
      <<"frequency", "dct:accrualPeriodicity">>, <<"provenance", "dct:provenance">>,
      <<"dcat_type", "dct:type">>>>

DatasetListExtras ==
    <<<<"language", "dct:language">>, <<"theme", "dcat:theme">>,
      <<"alternate_identifier", "adms:identifier">>, <<"kategori", "dcat:kategori">>,
      <<"prioritas_tahun", "dcat:prioritas_tahun">>,
      <<"accessRights", "dcat:accessRights">>, <<"conforms_to", "dct:conformsTo">>,
      <<"documentation", "foaf:page">>, <<"related_resource", "dct:relation">>,
      <<"has_version", "dct:hasVersion">>, <<"is_version_of", "dct:isVersionOf">>,
      <<"source", "dct:source">>, <<"sample", "adms:sample">>>>

\* parse_dataset, "Tags": DCAT_CLEAN_TAGS is off, the tags are taken as they are
TagsOf(gr, dataset_ref) ==
    LET tags_val == keywords(gr, dataset_ref)
    IN PyList([i \in 1..Len(tags_val) |-> [name |-> PyStr(tags_val[i])]])

\* RDFProfile._add_spatial_to_dict for each key of keys
RECURSIVE SpatialExtras(_, _)
SpatialExtras(spatial_, keys) ==
    IF keys = <<>> THEN <<>>
    ELSE (IF Truthy(spatial_[Head(keys)])
          THEN <<[key |-> IF Head(keys) = "geom" THEN "spatial"
                          ELSE "spatial_" \o Head(keys),
                  value |-> spatial_[Head(keys)]]>>
          ELSE <<>>)
         \o SpatialExtras(spatial_, Tail(keys))

\* if not dataset_dict.get('version'): the value of adms:version, when there is one
VersionFallback(d, adms_version) ==
    IF ~Truthy(DictGet(d, "version", None)) THEN SetIfText(d, "version", adms_version)
    ELSE d

\* contact = dcat:contactPoint, or adms:contactPoint when that gives nothing
ContactFallback(gr, cfg, dataset_ref, contact) ==
    IF contact = EmptyDict
    THEN contact_details(gr, cfg, dataset_ref, "adms:contactPoint")
    ELSE contact

\* the extras entries for the ends of the temporal interval
TemporalExtras(temporal) ==
    (IF Truthy(temporal[1])
     THEN <<[key |-> "temporal_start", value |-> temporal[1]]>> ELSE <<>>)
    \o (IF Truthy(temporal[2])
        THEN <<[key |-> "temporal_end", value |-> temporal[2]]>> ELSE <<>>)

\* a first part of parse_dataset that keeps the extras and the resources of
\* the record it is given
ParseDatasetFieldsKeeping(gr, cfg, dataset_dict_, dataset_ref) ==
    ExtrasExtend(
        DictSet(VersionFallback(
                    SetFromGraph(gr, cfg,
                                 DictSet(DictSet(dataset_dict_, "extras",
                                                 DictGet(dataset_dict_, "extras",
                                                         PyList(<<>>))),
                                         "resources",
                                         DictGet(dataset_dict_, "resources",
                                                 PyList(<<>>))),
                                 dataset_ref, DatasetBasicFields),
                    object_value(gr, cfg, dataset_ref, "adms:version")),
                "tags", TagsOf(gr, dataset_ref)),
        SimpleExtras(gr, cfg, dataset_ref, DatasetSimpleExtras)
        \o ListExtras(gr, dataset_ref, DatasetListExtras)
        \o PrefixedExtras(
               ContactFallback(gr, cfg, dataset_ref,
                               contact_details(gr, cfg, dataset_ref, "dcat:contactPoint")),
               "contact_", <<"uri", "name", "email">>)
        \o PrefixedExtras(publisher(gr, cfg, dataset_ref, "dct:publisher"),
                          "publisher_", PublisherKeys)
        \o TemporalExtras(time_interval(gr, cfg, dataset_ref, "dct:temporal", 1))
        \o SpatialExtras(spatial(gr, dataset_ref, "dct:spatial"),
                         <<"uri", "text", "geom">>)
        \o <<[key |-> "uri",
              value |-> PyStr(IF dataset_ref.kind = "URIRef" THEN Str(dataset_ref)
                              ELSE <<>>)]>>)

\* parse_dataset from its first line to "Dataset URI"
ParseDatasetFields(gr, cfg, dataset_dict_, dataset_ref) ==
    ExtrasExtend(
        DictSet(VersionFallback(
                    SetFromGraph(gr, cfg,
                                 DictSet(DictSet(dataset_dict_, "extras", PyList(<<>>)),
                                         "resources", PyList(<<>>)),
                                 dataset_ref, DatasetBasicFields),
                    object_value(gr, cfg, dataset_ref, "adms:version")),
                "tags", TagsOf(gr, dataset_ref)),
        SimpleExtras(gr, cfg, dataset_ref, DatasetSimpleExtras)
        \o ListExtras(gr, dataset_ref, DatasetListExtras)
        \o PrefixedExtras(
               ContactFallback(gr, cfg, dataset_ref,
                               contact_details(gr, cfg, dataset_ref, "dcat:contactPoint")),
               "contact_", <<"uri", "name", "email">>)
        \o PrefixedExtras(publisher(gr, cfg, dataset_ref, "dct:publisher"),
                          "publisher_", PublisherKeys)
        \o TemporalExtras(time_interval(gr, cfg, dataset_ref, "dct:temporal", 1))
        \o SpatialExtras(spatial(gr, dataset_ref, "dct:spatial"),
                         <<"uri", "text", "geom">>)
        \o <<[key |-> "uri",
              value |-> PyStr(IF dataset_ref.kind = "URIRef" THEN Str(dataset_ref)
                              ELSE <<>>)]>>)

DistributionSimpleFields ==
    <<<<"name", "dct:title">>, <<"description", "dct:description">>,
      <<"access_url", "dcat:accessURL">>, <<"download_url", "dcat:downloadURL">>,
      <<"issued", "dct:issued">>, <<"modified", "dct:modified">>,
      <<"status", "adms:status">>, <<"license", "dct:license">>>>

DistributionListFields ==
    <<<<"language", "dct:language">>, <<"documentation", "foaf:page">>,
      <<"conforms_to", "dct:conformsTo">>>>

\* the checksum loop of parse_dataset
RECURSIVE ChecksumLoop(_, _, _, _)
ChecksumLoop(gr, cfg, checksums, resource_dict) ==
    IF checksums = <<>> THEN resource_dict
    ELSE ChecksumLoop(gr, cfg, Tail(checksums),
             SetIfText(SetIfText(resource_dict, "hash_algorithm",
                                 object_value(gr, cfg, Head(checksums), "spdx:algorithm")),
                       "hash",
                       object_value(gr, cfg, Head(checksums), "spdx:checksumValue")))

\* a or b: the first text unless it is empty
FirstText(a, b) == IF a # <<>> THEN a ELSE b

\* parse_dataset, "Format and media type": fmt is (imt, label)
SetFormat(resource_dict, fmt) ==
    IF Truthy(fmt[2])
    THEN DictSet(SetIfTruthy(resource_dict, "mimetype", fmt[1]), "format", fmt[2])
    ELSE IF Truthy(fmt[1])
    THEN DictSet(DictSet(resource_dict, "mimetype", fmt[1]), "format", fmt[1])
    ELSE resource_dict

\* parse_dataset, "Size": if size is not None
SetSize(resource_dict, size) ==
    IF size.t # "NoneType" THEN DictSet(resource_dict, "size", size) ELSE resource_dict

\* the resource dict parse_dataset builds for one distribution
ResourceOf(gr, cfg, distribution) ==
    LET r1 == SetFromGraph(gr, cfg, EmptyDict, distribution, DistributionSimpleFields)
        r2 == DictSet(r1, "url",
                      PyStr(FirstText(object_value(gr, cfg, distribution,
                                                   "dcat:downloadURL"),
                                      object_value(gr, cfg, distribution,
                                                   "dcat:accessURL"))))
        r3 == SetListsFromGraph(gr, r2, distribution, DistributionListFields)
        r4 == SetIfText(r3, "rights", access_rights(gr, cfg, distribution, "dct:rights"))
        r6 == SetFormat(r4, distribution_format(gr, cfg, distribution,
                                                cfg.normalize_ckan_format))
        r7 == SetSize(r6, object_value_int(gr, cfg, distribution, "dcat:byteSize"))
        r8 == ChecksumLoop(gr, cfg, Objects(gr, distribution, "spdx:checksum"), r7)
        r9 == DictSet(r8, "uri",
                      PyStr(IF distribution.kind = "URIRef" THEN Str(distribution)
                            ELSE <<>>))
    IN DictSet(r9, "distribution_ref", PyStr(Str(distribution)))

\* ','.join(json.loads(extra['value'])): the languages joined as they come
JoinedLanguages(languages) ==
    PyStr(Join([i \in 1..Len(languages) |-> languages[i].v], <<",">>))

\* ','.join(sorted(json.loads(extra['value']))), languages being the decoded list
SortedLanguages(languages) ==
    PyStr(Join(SortedStrs([i \in 1..Len(languages) |-> languages[i].v]), <<",">>))

\* the compatibility-mode rewrite of one extras entry
CompatExtra(extra) ==
    IF extra.key \in {"issued", "modified", "publisher_name", "publisher_email"}
    THEN [extra EXCEPT !.key = "dcat_" \o @]
    ELSE IF extra.key = "language"
    THEN [extra EXCEPT !.value = SortedLanguages(JsonLoads(extra.value.v).val.v)]
    ELSE extra

\* parse_dataset, "Retro-compatibility", when compatibility_mode is set
CompatExtras(d, compatibility_mode) ==
    IF compatibility_mode
    THEN [d EXCEPT !["extras"] = PyList([i \in 1..Len(@.v) |-> CompatExtra(@.v[i])])]
    ELSE d

\* the outcome of parse_dataset: the exception raised ("" for none), the
\* dataset dict as the call leaves it, and self._licenceregister_cache
ParseOutcome(exc, d, cache) == [exc |-> exc, dict |-> d, cache |-> cache]

\* parse_dataset, "Source Catalog": the extras of the catalog, when exposed
SourceCatalogExtras(gr, cfg, d, catalog_src) ==
    IF cfg.expose_subcatalogs /\ catalog_src.kind # "None"
    THEN ExtrasExtend(d, extract_catalog_dict(gr, cfg, catalog_src))
    ELSE d

\* parse_dataset, "Resources": one resource dict for each distribution
SetResources(gr, cfg, d, dists) ==
    [d EXCEPT !["resources"] =
        PyList([i \in 1..Len(dists) |-> ResourceOf(gr, cfg, dists[i])])]

\* parse_dataset once _get_source_catalog has returned or raised
ParseDatasetAfterCatalog(gr, cfg, cache, compatibility_mode, d, dataset_ref, catalog_src) ==
    IF catalog_src.exc # "" THEN ParseOutcome(catalog_src.exc, d, cache)
    ELSE ParseOutcome("",
             CompatExtras(SetResources(gr, cfg,
                                       SourceCatalogExtras(gr, cfg, d, catalog_src.val),
                                       distributions(gr, dataset_ref)),
                          compatibility_mode),
             cache)

\* parse_dataset from "Source Catalog" to its return
ParseDatasetRest(gr, cfg, cache, compatibility_mode, d, dataset_ref) ==
    ParseDatasetAfterCatalog(gr, cfg, cache, compatibility_mode, d, dataset_ref,
                             get_source_catalog(gr, cfg, dataset_ref))

\* parse_dataset, "License": looked up unless the dict has a license_id
ParseDatasetLicense(gr, cfg, cache, compatibility_mode, d, dataset_ref) ==
    IF "license_id" \in DOMAIN d
    THEN ParseDatasetRest(gr, cfg, cache, compatibility_mode, d, dataset_ref)
    ELSE ParseDatasetRest(gr, cfg, LicenseCacheAfter(cache, LicenseRegisterItems),
                          compatibility_mode,
                          DictSet(d, "license_id",
                                  PyStr(license(gr, cfg, cache, LicenseRegisterItems,
                                                dataset_ref))),
                          dataset_ref)

\* parse_dataset from "Access Rights" on.  With an access right found, the
\* entry appended names `accessRights`, which is bound nowhere: NameError.
ParseDatasetAccessRights(gr, cfg, cache, compatibility_mode, d, dataset_ref) ==
    IF access_rights(gr, cfg, dataset_ref, "dct:accessRights") # <<>>
    THEN ParseOutcome("NameError", d, cache)
    ELSE ParseDatasetLicense(gr, cfg, cache, compatibility_mode, d, dataset_ref)

\* EuropeanDCATAPProfile.parse_dataset
parse_dataset(gr, cfg, cache, compatibility_mode, dataset_dict_, dataset_ref) ==
    ParseDatasetAccessRights(gr, cfg, cache, compatibility_mode,
                             ParseDatasetFields(gr, cfg, dataset_dict_, dataset_ref),
                             dataset_ref)

-----------------------------------------------------------------------------
(* EuropeanDCATAPProfile.graph_from_dataset *)

\* classes the writer types its nodes with
VCARD_Organization == URIRef(<<"vcard:Organization">>)
FOAF_Organization == URIRef(<<"foaf:Organization">>)
DCT_PeriodOfTime == URIRef(<<"dct:PeriodOfTime">>)
SPDX_Checksum == URIRef(<<"spdx:Checksum">>)

\* ckanext.dcat.utils.catalog_uri().rstrip('/'): the site URL
CatalogUri == <<"h", "t", "t", "p", ":", "/", "/", "s">>

\* ckanext.dcat.utils.publisher_uri_organization_fallback: the URI of the
\* dataset's organization, None without one
publisher_uri_organization_fallback(dataset_dict_) ==
    IF Truthy(DictGet(dataset_dict_, "organization", None))
    THEN PyStr(CatalogUri \o <<"/", "o", "r", "g", "a", "n", "i", "z", "a", "t", "i", "o", "n", "/">> \o dataset_dict_["organization"].v["id"].v)
    ELSE None

\* ckanext.dcat.utils.resource_uri: the uri the resource dict holds, or one
\* built from the ids of its dataset and of the resource
resource_uri(resource_dict) ==
    LET uri == DictGet(resource_dict, "uri", None)
    IN IF ~Truthy(uri) \/ uri = PyStr(<<"N", "o", "n", "e">>)
       THEN CatalogUri \o <<"/", "d", "a", "t", "a", "s", "e", "t", "/">> \o DictGet(resource_dict, "package_id", PyStr(<<>>)).v
            \o <<"/", "r", "e", "s", "o", "u", "r", "c", "e", "/">> \o resource_dict["id"].v
       ELSE uri.v

DatasetBasicItems ==
    <<<<"title", "dct:title", <<>>, "Literal">>,
      <<"notes", "dct:description", <<>>, "Literal">>,
      <<"url", "dcat:landingPage", <<>>, "URIRef">>,
      <<"private", "dct:private", <<>>, "URIRef">>,
      <<"identifier", "dct:identifier", <<"guid", "id">>, "URIRefOrLiteral">>,
      <<"version", "owl:versionInfo", <<"dcat_version">>, "Literal">>,
      <<"version_notes", "adms:versionNotes", <<>>, "Literal">>,
      <<"frequency", "dct:accrualPeriodicity", <<>>, "URIRefOrLiteral">>,
      <<"accessRights", "dct:accessRights", <<>>, "URIRefOrLiteral">>,
      <<"dcat_type", "dct:type", <<>>, "Literal">>,
      <<"provenance", "dct:provenance", <<>>, "Literal">>>>

DatasetDateItems ==
    <<<<"issued", "dct:issued", <<"metadata_created">>, "Literal">>,
      <<"modified", "dct:modified", <<"metadata_modified">>, "Literal">>>>

DatasetListItems ==
    <<<<"language", "dct:language", <<>>, "URIRefOrLiteral">>,
      <<"theme", "dcat:theme", <<>>, "URIRef">>,
      <<"kategori", "dcat:kategori", <<>>, "URIRef">>,
      <<"prioritas_tahun", "dcat:prioritas_tahun", <<>>, "URIRef">>,
      <<"accessRights", "dcat:accessRights", <<>>, "URIRef">>,
      <<"conforms_to", "dct:conformsTo", <<>>, "Literal">>,
      <<"alternate_identifier", "adms:identifier", <<>>, "URIRefOrLiteral">>,
      <<"documentation", "foaf:page", <<>>, "URIRefOrLiteral">>,
      <<"related_resource", "dct:relation", <<>>, "URIRefOrLiteral">>,
      <<"has_version", "dct:hasVersion", <<>>, "URIRefOrLiteral">>,
      <<"is_version_of", "dct:isVersionOf", <<>>, "URIRefOrLiteral">>,
      <<"source", "dct:source", <<>>, "URIRefOrLiteral">>,
      <<"sample", "adms:sample", <<>>, "URIRefOrLiteral">>>>

PublisherItems ==
    <<<<"publisher_email", "foaf:mbox", <<>>, "Literal">>,
      <<"publisher_url", "foaf:homepage", <<>>, "URIRef">>,
      <<"publisher_type", "dct:type", <<>>, "URIRefOrLiteral">>>>

DistributionSimpleItems ==
    <<<<"name", "dct:title", <<>>, "Literal">>,
      <<"description", "dct:description", <<>>, "Literal">>,
      <<"status", "adms:status", <<>>, "URIRefOrLiteral">>,
      <<"rights", "dct:rights", <<>>, "URIRefOrLiteral">>,
      <<"license", "dct:license", <<>>, "URIRefOrLiteral">>,
      <<"access_url", "dcat:accessURL", <<>>, "URIRef">>,
      <<"download_url", "dcat:downloadURL", <<>>, "URIRef">>>>

DistributionListItems ==
    <<<<"documentation", "foaf:page", <<>>, "URIRefOrLiteral">>,
      <<"language", "dct:language", <<>>, "URIRefOrLiteral">>,
      <<"conforms_to", "dct:conformsTo", <<>>, "Literal">>>>

DistributionDateItems ==
    <<<<"issued", "dct:issued", <<"created">>, "Literal">>,
      <<"modified", "dct:modified", <<"metadata_modified">>, "Literal">>>>

\* any(self._get_dataset_value(dataset_dict, key) for key in keys)
AnyValue(dataset_dict_, keys) ==
    \E i \in 1..Len(keys) : Truthy(get_dict_value(dataset_dict_, keys[i], None))

\* graph_from_dataset, "Tags"
RECURSIVE AddTags(_, _, _)
AddTags(gr, dataset_ref, tags) ==
    IF tags = <<>> THEN gr
    ELSE AddTags(GraphAdd(gr, <<dataset_ref, "dcat:keyword", Literal(Head(tags).name.v)>>),
                 dataset_ref, Tail(tags))

\* graph_from_dataset, "Contact details"
AddContact(gr, dataset_dict_, dataset_ref) ==
    IF ~AnyValue(dataset_dict_, <<"contact_uri", "contact_name", "contact_email",
                                  "maintainer", "maintainer_email", "author",
                                  "author_email">>)
    THEN gr
    ELSE LET contact_uri == get_dict_value(dataset_dict_, "contact_uri", None)
             contact_details_ == IF Truthy(contact_uri) THEN CleanedURIRef(contact_uri.v)
                                 ELSE FreshBNode(gr)
             g1 == GraphAddAll(gr, << <<contact_details_, "rdf:type", VCARD_Organization>>,
                                     <<dataset_ref, "dcat:contactPoint",
                                       contact_details_>> >>)
             g2 == add_triple_from_dict(g1, dataset_dict_, contact_details_, "vcard:fn",
                                        "contact_name", <<"maintainer", "author">>,
                                        FALSE, FALSE, "Literal", "", "").g
         IN add_triple_from_dict(g2, dataset_dict_, contact_details_, "vcard:hasEmail",
                                 "contact_email", <<"maintainer_email", "author_email">>,
                                 FALSE, FALSE, "URIRef", "", "_add_mailto").g

\* graph_from_dataset, "Publisher"
AddPublisher(gr, dataset_dict_, dataset_ref) ==
    IF ~(\/ AnyValue(dataset_dict_, <<"publisher_uri", "publisher_name">>)
         \/ Truthy(DictGet(dataset_dict_, "organization", None)))
    THEN gr
    ELSE LET publisher_uri == get_dict_value(dataset_dict_, "publisher_uri", None)
             publisher_uri_fallback == publisher_uri_organization_fallback(dataset_dict_)
             publisher_name0 == get_dict_value(dataset_dict_, "publisher_name", None)
             publisher_details ==
                 IF Truthy(publisher_uri) THEN CleanedURIRef(publisher_uri.v)
                 ELSE IF ~Truthy(publisher_name0) /\ Truthy(publisher_uri_fallback)
                 THEN CleanedURIRef(publisher_uri_fallback.v)
                 ELSE FreshBNode(gr)
             publisher_name ==
                 IF /\ ~Truthy(publisher_name0) /\ ~Truthy(publisher_uri)
                    /\ Truthy(DictGet(dataset_dict_, "organization", None))
                 THEN dataset_dict_["organization"].v["title"]
                 ELSE publisher_name0
             g1 == GraphAddAll(gr, << <<publisher_details, "rdf:type", FOAF_Organization>>,
                                     <<dataset_ref, "dct:publisher", publisher_details>>,
                                     <<publisher_details, "foaf:name",
                                       LiteralOf(publisher_name)>> >>)
         IN add_triples_from_dict(g1, dataset_dict_, publisher_details, PublisherItems,
                                  FALSE, FALSE).g

\* graph_from_dataset, "Temporal", for the two ends and a fresh node
AddPeriod(gr, dataset_ref, start, end, temporal_extent) ==
    IF Truthy(start) \/ Truthy(end)
    THEN GraphAdd(
             add_date_triple(
                 add_date_triple(
                     GraphAdd(gr, <<temporal_extent, "rdf:type", DCT_PeriodOfTime>>),
                     temporal_extent, "schema:startDate", start),
                 temporal_extent, "schema:endDate", end),
             <<dataset_ref, "dct:temporal", temporal_extent>>)
    ELSE gr

\* graph_from_dataset, "Temporal"
AddTemporal(gr, dataset_dict_, dataset_ref) ==
    AddPeriod(gr, dataset_ref,
              get_dict_value(dataset_dict_, "temporal_start", None),
              get_dict_value(dataset_dict_, "temporal_end", None),
              FreshBNode(gr))

\* the geometry triples of "Spatial", when there is a geometry
AddGeometry(gr, spatial_ref, spatial_geom) ==
    IF Truthy(spatial_geom)
    THEN add_spatial_value_to_graph(gr, spatial_ref, "locn:geometry", spatial_geom.v)
    ELSE gr

\* graph_from_dataset, "Spatial", for the text, the geometry and the node
AddLocation(gr, dataset_dict_, dataset_ref, spatial_text, spatial_geom, spatial_ref) ==
    IF ~(Truthy(spatial_text) \/ Truthy(spatial_geom)) THEN gr
    ELSE AddGeometry(
             AddIf(Truthy(spatial_text),
                   get_or_create_spatial_ref(gr, dataset_dict_, dataset_ref, spatial_ref),
                   <<spatial_ref, "skos:prefLabel", Literal(spatial_text.v)>>),
             spatial_ref, spatial_geom)

\* graph_from_dataset, "Spatial"
AddSpatial(gr, dataset_dict_, dataset_ref) ==
    AddLocation(gr, dataset_dict_, dataset_ref,
                get_dict_value(dataset_dict_, "spatial_text", None),
                get_dict_value(dataset_dict_, "spatial", None),
                spatial_ref_of(gr, dataset_dict_, dataset_ref))

\* isinstance(URIRefOrLiteral(d[key]), URIRef) for a key of d
IsURIRefValue(d, key) ==
    key \in DOMAIN d /\ d[key].t = "str" /\ URIRefOrLiteral(d[key].v).kind = "URIRef"

\* a fallback that prefers license_url to license_id
ResourceLicenseFallbackUrlFirst(cfg, dataset_dict_) ==
    IF ~cfg.resource_inherit_license THEN None
    ELSE IF IsURIRefValue(dataset_dict_, "license_url") THEN dataset_dict_["license_url"]
    ELSE IF IsURIRefValue(dataset_dict_, "license_id") THEN dataset_dict_["license_id"]
    ELSE None

\* graph_from_dataset, "Use fallback license if set in config"
ResourceLicenseFallback(cfg, dataset_dict_) ==
    IF ~cfg.resource_inherit_license THEN None
    ELSE IF IsURIRefValue(dataset_dict_, "license_id") THEN dataset_dict_["license_id"]
    ELSE IF IsURIRefValue(dataset_dict_, "license_url") THEN dataset_dict_["license_url"]
    ELSE None

\* graph_from_dataset, "Format": the pair (mimetype, fmt) written
FormatToWrite(resource_dict) ==
    LET mimetype == DictGet(resource_dict, "mimetype", None)
        fmt == DictGet(resource_dict, "format", None)
    IN IF Truthy(fmt) /\ (~Truthy(mimetype) \/ mimetype = fmt)
       THEN IF \/ IsSubstring(IanaMediaTypes, fmt.v)
               \/ ~StartsWith(fmt.v, <<"h", "t", "t", "p">>) /\ "/" \in Range(fmt.v)
            THEN <<fmt, None>>
            ELSE <<None, fmt>>
       ELSE <<mimetype, fmt>>

\* str(float(text)) for a run of digits
FloatText(text) == StripZeros(text) \o <<".", "0">>

\* graph_from_dataset, "Numbers" and "Checksum"
AddSizeAndChecksum(gr, resource_dict, distribution) ==
    LET size == DictGet(resource_dict, "size", None)
        hash == DictGet(resource_dict, "hash", None)
        algorithm == DictGet(resource_dict, "hash_algorithm", None)
        g1 == IF ~Truthy(size) THEN gr
              ELSE IF size.t \in {"str", "int"} /\ AllDigits(size.v)
              THEN GraphAdd(gr, <<distribution, "dcat:byteSize",
                                  LiteralTyped(FloatText(size.v), "xsd:decimal")>>)
              ELSE GraphAdd(gr, <<distribution, "dcat:byteSize", LiteralOf(size)>>)
        checksum == FreshBNode(g1)
        g2 == GraphAddAll(g1, << <<checksum, "rdf:type", SPDX_Checksum>>,
                                <<checksum, "spdx:checksumValue",
                                  LiteralTyped(hash.v, "xsd:hexBinary")>> >>)
        g3 == IF Truthy(algorithm)
              THEN GraphAdd(g2, <<checksum, "spdx:algorithm", URIRefOrLiteral(algorithm.v)>>)
              ELSE g2
    IN IF Truthy(hash) THEN GraphAdd(g3, <<distribution, "spdx:checksum", checksum>>)
       ELSE g1

\* graph_from_dataset, "Use fallback license if set in config"
AddLicenseFallback(gr, distribution, fallback) ==
    AddIf(Truthy(fallback) /\ Objects(gr, distribution, "dct:license") = <<>>, gr,
          <<distribution, "dct:license", URIRefOrLiteral(fallback.v)>>)

\* graph_from_dataset, "Format": format is the pair (mimetype, fmt)
AddFormat(gr, distribution, format) ==
    AddIf(Truthy(format[2]),
          AddIf(Truthy(format[1]), gr,
                <<distribution, "dcat:mediaType", URIRefOrLiteral(format[1].v)>>),
          <<distribution, "dct:format", URIRefOrLiteral(format[2].v)>>)

\* graph_from_dataset, "URL fallback and old behavior"
AddAccessURL(gr, resource_dict, distribution, url, download_url, access_url) ==
    IF /\ Truthy(url) /\ ~Truthy(access_url)
       /\ (~Truthy(download_url) \/ url # download_url)
    THEN add_triple_from_dict(gr, resource_dict, distribution, "dcat:accessURL", "url",
                              <<>>, FALSE, FALSE, "URIRef", "", "").g
    ELSE gr

\* the "Resources" loop for one resource, from the license fallback on;
\* w is the outcome of writing the lists
AddResourceAfterLists(w, cfg, dataset_dict_, resource_dict, distribution) ==
    IF w.exc # "" THEN w
    ELSE Wrote("",
             AddSizeAndChecksum(
                 add_triples_from_dict(
                     AddAccessURL(
                         AddFormat(
                             AddLicenseFallback(w.g, distribution,
                                                ResourceLicenseFallback(cfg, dataset_dict_)),
                             distribution, FormatToWrite(resource_dict)),
                         resource_dict, distribution,
                         DictGet(resource_dict, "url", None),
                         DictGet(resource_dict, "download_url", None),
                         DictGet(resource_dict, "access_url", None)),
                     resource_dict, distribution, DistributionDateItems, FALSE, TRUE).g,
                 resource_dict, distribution))

\* the "Resources" loop for one resource and the node of its distribution
AddDistribution(gr, cfg, dataset_dict_, dataset_ref, resource_dict, distribution) ==
    AddResourceAfterLists(
        add_triples_from_dict(
            add_triples_from_dict(
                GraphAddAll(gr, << <<dataset_ref, "dcat:distribution", distribution>>,
                                   <<distribution, "rdf:type", DCAT_Distribution>> >>),
                resource_dict, distribution, DistributionSimpleItems, FALSE, FALSE).g,
            resource_dict, distribution, DistributionListItems, TRUE, FALSE),
        cfg, dataset_dict_, resource_dict, distribution)

\* the body of the "Resources" loop of graph_from_dataset for one resource
AddResource(gr, cfg, dataset_dict_, dataset_ref, resource_dict) ==
    AddDistribution(gr, cfg, dataset_dict_, dataset_ref, resource_dict,
                    CleanedURIRef(resource_uri(resource_dict)))

RECURSIVE AddResources(_, _, _, _, _)

\* the "Resources" loop after one resource: an exception ends it
AddNextResources(w, cfg, dataset_dict_, dataset_ref, resources) ==
    IF w.exc # "" THEN w
    ELSE AddResources(w.g, cfg, dataset_dict_, dataset_ref, resources)

\* graph_from_dataset, "Resources"
AddResources(gr, cfg, dataset_dict_, dataset_ref, resources) ==
    IF resources = <<>> THEN Wrote("", gr)
    ELSE AddNextResources(AddResource(gr, cfg, dataset_dict_, dataset_ref,
                                      Head(resources)),
                          cfg, dataset_dict_, dataset_ref, Tail(resources))

\* graph_from_dataset from "Contact details" on; w is the outcome of
\* writing the lists
DatasetAfterLists(w, cfg, dataset_dict_, dataset_ref) ==
    IF w.exc # "" THEN w
    ELSE AddResources(
             AddSpatial(
                 AddTemporal(
                     AddPublisher(AddContact(w.g, dataset_dict_, dataset_ref),
                                  dataset_dict_, dataset_ref),
                     dataset_dict_, dataset_ref),
                 dataset_dict_, dataset_ref),
             cfg, dataset_dict_, dataset_ref,
             DictGet(dataset_dict_, "resources", PyList(<<>>)).v)

\* EuropeanDCATAPProfile.graph_from_dataset: the exception raised ("" for
\* none) and the graph it leaves
graph_from_dataset(gr, cfg, dataset_dict_, dataset_ref) ==
    LET g1 == GraphAdd(gr, <<dataset_ref, "rdf:type", DCAT_Dataset>>)
        g2 == add_triples_from_dict(g1, dataset_dict_, dataset_ref, DatasetBasicItems,
                                    FALSE, FALSE).g
        g3 == AddTags(g2, dataset_ref, DictGet(dataset_dict_, "tags", PyList(<<>>)).v)
        g4 == add_triples_from_dict(g3, dataset_dict_, dataset_ref, DatasetDateItems,
                                    FALSE, TRUE).g
    IN DatasetAfterLists(add_triples_from_dict(g4, dataset_dict_, dataset_ref,
                                               DatasetListItems, TRUE, FALSE),
                         cfg, dataset_dict_, dataset_ref)


-----------------------------------------------------------------------------
(* EuropeanDCATAP2Profile.parse_dataset *)

\* json.dumps(value) for a str, an int, a list, or a dict given as the list
\* of its members [key, value] in insertion order, the keys being str
RECURSIVE JsonDumps(_)
JsonDumps(value) ==
    CASE value.t = "str" -> JsonDumpsStr(value.v)
      [] value.t = "int" -> value.v
      [] value.t = "list" ->
            <<"[">>
            \o Join([i \in 1..Len(value.v) |-> JsonDumps(value.v[i])], <<",", " ">>)
            \o <<"]">>
      [] value.t = "dict" ->
            <<"{">>
            \o Join([i \in 1..Len(value.v) |->
                        JsonDumpsStr(value.v[i].key) \o <<":", " ">>
                        \o JsonDumps(value.v[i].value)],
                    <<",", " ">>)
            \o <<"}">>

\* RDFProfile._object_value_int_list (the objects of the model's graphs are
\* plain literals, truthy when they are not empty)
RECURSIVE ObjectValueIntLoop(_)
ObjectValueIntLoop(os) ==
    IF os = <<>> THEN <<>>
    ELSE (IF TermTruthy(Head(os)) /\ IntOfFloat(Str(Head(os))).t = "int"
          THEN <<IntOfFloat(Str(Head(os)))>> ELSE <<>>)
         \o ObjectValueIntLoop(Tail(os))

object_value_int_list(gr, subject, predicate) ==
    ObjectValueIntLoop(Objects(gr, subject, predicate))

\* an insertion of a temporal entry that never looks for an entry with the key
insert_temporal_append(d, key, value) ==
    ExtrasAppend(d, key, value)

\* RDFProfile._insert_or_update_temporal: the first extras entry with the
\* key gets the value, and a new entry is appended when there is none
insert_or_update_temporal(d, key, value) ==
    IF \E i \in 1..Len(d["extras"].v) : d["extras"].v[i].key = key
    THEN [d EXCEPT !["extras"] =
             PyList([i \in 1..Len(@.v) |->
                        IF /\ @.v[i].key = key
                           /\ \A j \in 1..(i - 1) : @.v[j].key # key
                        THEN [@.v[i] EXCEPT !.value = value]
                        ELSE @.v[i]])]
    ELSE ExtrasAppend(d, key, value)

\* if value: self._insert_or_update_temporal(dataset_dict, key, value)
InsertTemporalIf(d, key, value) ==
    IF Truthy(value) THEN insert_or_update_temporal(d, key, value) ELSE d

\* parse_dataset of DCAT-AP 2, "Temporal"
InsertTemporal(d, pair) ==
    InsertTemporalIf(InsertTemporalIf(d, "temporal_start", pair[1]), "temporal_end", pair[2])

\* parse_dataset of DCAT-AP 2, "Spatial resolution in meters"
SpatialResolutionExtras(resolutions) ==
    IF resolutions # <<>>
    THEN <<[key |-> "spatial_resolution_in_meters",
            value |-> PyStr(JsonDumps(PyList(resolutions)))]>>
    ELSE <<>>

\* parse_dataset of DCAT-AP 2 from "Lists" to "Spatial resolution in meters"
DatasetExtras2(gr, cfg, d, dataset_ref) ==
    ExtrasExtend(
        InsertTemporal(
            ExtrasExtend(d, ListExtras(gr, dataset_ref,
                                       <<<<"temporal_resolution", "dcat:temporalResolution">>,
                                         <<"is_referenced_by", "dct:isReferencedBy">>>>)),
            time_interval(gr, cfg, dataset_ref, "dct:temporal", 2)),
        SpatialExtras(spatial(gr, dataset_ref, "dct:spatial"), <<"bbox", "centroid">>)
        \o SpatialResolutionExtras(
               object_value_int_list(gr, dataset_ref, "dcat:spatialResolutionInMeters")))

\* the simple values of an access service: key and predicate
AccessServiceSimpleFields ==
    <<<<<<"a", "v", "a", "i", "l", "a", "b", "i", "l", "i", "t", "y">>, "dcatap:availability">>,
      <<<<"t", "i", "t", "l", "e">>, "dct:title">>,
      <<<<"e", "n", "d", "p", "o", "i", "n", "t", "_", "d", "e", "s", "c", "r", "i", "p", "t", "i", "o", "n">>, "dcat:endpointDescription">>,
      <<<<"l", "i", "c", "e", "n", "s", "e">>, "dct:license">>,
      <<<<"a", "c", "c", "e", "s", "s", "R", "i", "g", "h", "t", "s">>, "dct:accessRights">>,
      <<<<"d", "e", "s", "c", "r", "i", "p", "t", "i", "o", "n">>, "dct:description">>>>

\* the list values of an access service
AccessServiceListFields ==
    <<<<<<"e", "n", "d", "p", "o", "i", "n", "t", "_", "u", "r", "l">>, "dcat:endpointURL">>,
      <<<<"s", "e", "r", "v", "e", "s", "_", "d", "a", "t", "a", "s", "e", "t">>, "dcat:servesDataset">>>>

\* access_service_dict after "Simple values": a member for each value found
RECURSIVE AccessServiceSimple(_, _, _, _)
AccessServiceSimple(gr, cfg, access_service, fields) ==
    IF fields = <<>> THEN <<>>
    ELSE (IF object_value(gr, cfg, access_service, Head(fields)[2]) # <<>>
          THEN <<[key |-> Head(fields)[1],
                  value |-> PyStr(object_value(gr, cfg, access_service, Head(fields)[2]))]>>
          ELSE <<>>)
         \o AccessServiceSimple(gr, cfg, access_service, Tail(fields))

\* the members "List" adds.  Its test reads `value`, which the loop over the
\* simple values left bound to the last value it looked up (dct:description),
\* and not `values`.
RECURSIVE AccessServiceLists(_, _, _, _)
AccessServiceLists(gr, access_service, fields, value) ==
    IF fields = <<>> THEN <<>>
    ELSE (IF value # <<>>
          THEN <<[key |-> Head(fields)[1],
                  value |-> PyList([i \in 1..Len(object_value_list(gr, access_service,
                                                                    Head(fields)[2])) |->
                                       PyStr(object_value_list(gr, access_service,
                                                               Head(fields)[2])[i])])]>>
          ELSE <<>>)
         \o AccessServiceLists(gr, access_service, Tail(fields), value)

\* access_service_dict for one object of dcat:accessService
AccessServiceOf(gr, cfg, access_service) ==
    PyDict(AccessServiceSimple(gr, cfg, access_service, AccessServiceSimpleFields)
           \o AccessServiceLists(gr, access_service, AccessServiceListFields,
                                 object_value(gr, cfg, access_service, "dct:description"))
           \o <<[key |-> <<"u", "r", "i">>,
                 value |-> PyStr(IF access_service.kind = "URIRef"
                                 THEN Str(access_service) ELSE <<>>)],
                [key |-> <<"a", "c", "c", "e", "s", "s", "_", "s", "e", "r", "v", "i", "c", "e", "_", "r", "e", "f">>, value |-> PyStr(Str(access_service))]>>)

\* if access_service_list: resource_dict['access_services'] = json.dumps(...)
SetAccessServices(resource_dict, access_service_list) ==
    IF access_service_list # <<>>
    THEN DictSet(resource_dict, "access_services",
                 PyStr(JsonDumps(PyList(access_service_list))))
    ELSE resource_dict

\* the body of the loop over the resources for a resource the distribution
\* matches (the access services are rebuilt for each of the three simple
\* keys, to the same list)
ResourceOf2(gr, cfg, resource_dict, distribution) ==
    SetAccessServices(
        SetFromGraph(gr, cfg, resource_dict, distribution,
                     <<<<"availability", "dcatap:availability">>,
                       <<"compress_format", "dcat:compressFormat">>,
                       <<"package_format", "dcat:packageFormat">>>>),
        [i \in 1..Len(Objects(gr, distribution, "dcat:accessService")) |->
            AccessServiceOf(gr, cfg, Objects(gr, distribution, "dcat:accessService")[i])])

\* one resource dict after the loop over the distributions
RECURSIVE ResourceLoop2(_, _, _, _)
ResourceLoop2(gr, cfg, resource_dict, dists) ==
    IF dists = <<>> THEN resource_dict
    ELSE ResourceLoop2(gr, cfg,
                       IF PyStr(Str(Head(dists))) = DictGet(resource_dict, "distribution_ref", None)
                       THEN ResourceOf2(gr, cfg, resource_dict, Head(dists))
                       ELSE resource_dict,
                       Tail(dists))

\* parse_dataset of DCAT-AP 2, "Resources"
SetResources2(gr, cfg, d, dists) ==
    [d EXCEPT !["resources"] =
        PyList([i \in 1..Len(@.v) |-> ResourceLoop2(gr, cfg, @.v[i], dists)])]

\* parse_dataset of DCAT-AP 2 once the method of DCAT-AP 1 returned or raised
ParseDataset2After(gr, cfg, out, dataset_ref) ==
    IF out.exc # "" THEN out
    ELSE ParseOutcome("",
                      SetResources2(gr, cfg, DatasetExtras2(gr, cfg, out.dict, dataset_ref),
                                    distributions(gr, dataset_ref)),
                      out.cache)

\* EuropeanDCATAP2Profile.parse_dataset
parse_dataset_2(gr, cfg, cache, compatibility_mode, dataset_dict_, dataset_ref) ==
    ParseDataset2After(gr, cfg,
                       parse_dataset(gr, cfg, cache, compatibility_mode, dataset_dict_,
                                     dataset_ref),
                       dataset_ref)

-----------------------------------------------------------------------------
(* EuropeanDCATAP2Profile.graph_from_dataset *)

\* graph_from_dataset of DCAT-AP 2, "Lists"
AddLists2(gr, dataset_dict_, dataset_ref) ==
    AddNextTriples(
        add_triple_from_dict(gr, dataset_dict_, dataset_ref, "dcat:temporalResolution",
                             "temporal_resolution", <<>>, TRUE, FALSE, "Literal",
                             "xsd:duration", ""),
        dataset_dict_, dataset_ref,
        << <<"is_referenced_by", "dct:isReferencedBy", <<>>, "URIRefOrLiteral">> >>,
        TRUE, FALSE)

\* graph_from_dataset of DCAT-AP 2, "Temporal", for the two ends and a
\* fresh node
AddPeriod2(gr, dataset_ref, start, end, temporal_extent_dcat) ==
    IF Truthy(start) \/ Truthy(end)
    THEN GraphAdd(
             add_date_triple(
                 add_date_triple(
                     GraphAdd(gr, <<temporal_extent_dcat, "rdf:type", DCT_PeriodOfTime>>),
                     temporal_extent_dcat, "dcat:startDate", start),
                 temporal_extent_dcat, "dcat:endDate", end),
             <<dataset_ref, "dct:temporal", temporal_extent_dcat>>)
    ELSE gr

\* graph_from_dataset of DCAT-AP 2, "Temporal"
AddTemporal2(gr, dataset_dict_, dataset_ref) ==
    AddPeriod2(gr, dataset_ref,
               get_dict_value(dataset_dict_, "temporal_start", None),
               get_dict_value(dataset_dict_, "temporal_end", None),
               FreshBNode(gr))

\* the triples of one of the two boxes of "spatial", when the record has it
AddBox(gr, spatial_ref, predicate, value) ==
    IF Truthy(value)
    THEN add_spatial_value_to_graph(gr, spatial_ref, predicate, value.v)
    ELSE gr

\* graph_from_dataset of DCAT-AP 2, "spatial", for the bounding box, the
\* centroid and the node
AddBoxes(gr, dataset_dict_, dataset_ref, spatial_bbox, spatial_cent, spatial_ref) ==
    IF ~(Truthy(spatial_bbox) \/ Truthy(spatial_cent)) THEN gr
    ELSE AddBox(
             AddBox(get_or_create_spatial_ref(gr, dataset_dict_, dataset_ref, spatial_ref),
                    spatial_ref, "dcat:bbox", spatial_bbox),
             spatial_ref, "dcat:centroid", spatial_cent)

\* graph_from_dataset of DCAT-AP 2, "spatial"
AddSpatial2(gr, dataset_dict_, dataset_ref) ==
    AddBoxes(gr, dataset_dict_, dataset_ref,
             get_dict_value(dataset_dict_, "spatial_bbox", None),
             get_dict_value(dataset_dict_, "spatial_centroid", None),
             spatial_ref_of(gr, dataset_dict_, dataset_ref))

\* a run of digits without its trailing zeros ("0" for none left)
RECURSIVE StripTrailingZeros(_)
StripTrailingZeros(s) ==
    IF Len(s) > 1 /\ s[Len(s)] = "0" THEN StripTrailingZeros(SubSeq(s, 1, Len(s) - 1))
    ELSE s

\* str(float(text)) for digits "." digits, either run possibly empty
FloatTextOfParts(whole, fraction) ==
    StripZeros(IF whole = <<>> THEN <<"0">> ELSE whole) \o <<".">>
    \o StripTrailingZeros(IF fraction = <<>> THEN <<"0">> ELSE fraction)

\* float(text) as text, for a text that is digits or digits "." digits
\* with blanks around; <<>> when float() raises ValueError.  The other
\* spellings float() reads (a sign, an exponent, inf, nan) are not among
\* the values of the records.
FloatOfParts(parts) ==
    IF Len(parts) = 1 /\ AllDigits(parts[1]) THEN FloatText(parts[1])
    ELSE IF Len(parts) = 2 /\ AllDigits(parts[1] \o parts[2])
    THEN FloatTextOfParts(parts[1], parts[2])
    ELSE <<>>

\* Literal(float(value), datatype=XSD.decimal), or Literal(value) when
\* float() raises ValueError or TypeError
ResolutionLiteral(value, as_float) ==
    IF value.t \in {"str", "int", "float"} /\ as_float # <<>>
    THEN LiteralTyped(as_float, "xsd:decimal")
    ELSE IF value.t = "bool"
    THEN LiteralTyped(IF Truthy(value) THEN <<"1", ".", "0">> ELSE <<"0", ".", "0">>,
                      "xsd:decimal")
    ELSE LiteralOf(value)

\* the loop of "Spatial resolution in meters"
RECURSIVE AddResolutions(_, _, _)
AddResolutions(gr, dataset_ref, values) ==
    IF values = <<>> THEN gr
    ELSE AddResolutions(
             GraphAdd(gr, <<dataset_ref, "dcat:spatialResolutionInMeters",
                            ResolutionLiteral(Head(values),
                                IF Head(values).t \in {"str", "int", "float"}
                                THEN FloatOfParts(Split(Strip(Head(values).v), "."))
                                ELSE <<>>)>>),
             dataset_ref, Tail(values))

\* graph_from_dataset of DCAT-AP 2, "Spatial resolution in meters", for
\* what _read_list_value returned
AddSpatialResolution(gr, dataset_ref, spatial_resolution_in_meters) ==
    IF ~Truthy(spatial_resolution_in_meters) THEN gr
    ELSE AddResolutions(gr, dataset_ref, IterItems(spatial_resolution_in_meters))

\* the simple values of a distribution DCAT-AP 2 adds
DistributionItems2 ==
    << <<"availability", "dcatap:availability", <<>>, "URIRefOrLiteral">>,
       <<"compress_format", "dcat:compressFormat", <<>>, "URIRefOrLiteral">>,
       <<"package_format", "dcat:packageFormat", <<>>, "URIRefOrLiteral">> >>

\* the simple values of an access service
AccessServiceItems ==
    << <<"availability", "dcatap:availability", <<>>, "URIRefOrLiteral">>,
       <<"license", "dct:license", <<>>, "URIRefOrLiteral">>,
       <<"accessRights", "dct:accessRights", <<>>, "URIRefOrLiteral">>,
       <<"title", "dct:title", <<>>, "Literal">>,
       <<"endpoint_description", "dcat:endpointDescription", <<>>, "Literal">>,
       <<"description", "dct:description", <<>>, "Literal">> >>

\* the lists of an access service
AccessServiceListItems ==
    << <<"endpoint_url", "dcat:endpointURL", <<>>, "URIRefOrLiteral">>,
       <<"serves_dataset", "dcat:servesDataset", <<>>, "URIRefOrLiteral">> >>

\* the names of the members of an access service the writer reads, with
\* their spelling
AccessServiceKeys ==
    << <<"uri", <<"u", "r", "i">>>>,
       <<"availability", <<"a", "v", "a", "i", "l", "a", "b", "i", "l", "i", "t", "y">>>>,
       <<"license", <<"l", "i", "c", "e", "n", "s", "e">>>>,
       <<"accessRights", <<"a", "c", "c", "e", "s", "s", "R", "i", "g", "h", "t", "s">>>>,
       <<"title", <<"t", "i", "t", "l", "e">>>>,
       <<"endpoint_description", <<"e", "n", "d", "p", "o", "i", "n", "t", "_", "d", "e", "s", "c", "r", "i", "p", "t", "i", "o", "n">>>>,
       <<"description", <<"d", "e", "s", "c", "r", "i", "p", "t", "i", "o", "n">>>>,
       <<"endpoint_url", <<"e", "n", "d", "p", "o", "i", "n", "t", "_", "u", "r", "l">>>>,
       <<"serves_dataset", <<"s", "e", "r", "v", "e", "s", "_", "d", "a", "t", "a", "s", "e", "t">>>> >>

\* the last member of the name among the members of a decoded object
LastMember(members, key) ==
    members[CHOOSE i \in 1..Len(members) :
                /\ members[i].key = key
                /\ \A j \in (i + 1)..Len(members) : members[j].key # key]

\* access_service_dict, decoded from JSON, as a dict of the names the
\* writer reads (the access services of the records have no extras)
RECURSIVE MemberDict(_, _)
MemberDict(members, names) ==
    IF names = <<>> THEN EmptyDict
    ELSE IF \E i \in 1..Len(members) : members[i].key = Head(names)[2]
    THEN (Head(names)[1] :> LastMember(members, Head(names)[2]).value)
         @@ MemberDict(members, Tail(names))
    ELSE MemberDict(members, Tail(names))

\* access_service_dict[key] = value on the members of a decoded object
SetMember(members, key, value) ==
    IF \E i \in 1..Len(members) : members[i].key = key
    THEN [i \in 1..Len(members) |->
             IF members[i].key = key THEN [key |-> key, value |-> value]
             ELSE members[i]]
    ELSE Append(members, [key |-> key, value |-> value])

\* access_service_node: the cleaned uri of the access service, or a new
\* blank node
AccessServiceNode(gr, access_service_uri) ==
    IF ~Truthy(access_service_uri) THEN FreshBNode(gr)
    ELSE IF access_service_uri.t = "str" THEN CleanedURIRef(access_service_uri.v)
    ELSE URIRef(access_service_uri.v)

\* access_service_dict once its node is chosen: a blank node is remembered
\* under access_service_ref
AccessServiceKept(access_service_dict, access_service_node) ==
    IF access_service_node.kind # "BNode" THEN access_service_dict
    ELSE PyDict(SetMember(access_service_dict.v, <<"a", "c", "c", "e", "s", "s", "_", "s", "e", "r", "v", "i", "c", "e", "_", "r", "e", "f">>,
                          PyStr(access_service_node.value)))

\* the triples of one access service, _dict being its members by name
AddAccessService(gr, distribution, _dict, access_service_node) ==
    AddNextTriples(
        add_triples_from_dict(
            GraphAddAll(gr, << <<distribution, "dcat:accessService", access_service_node>>,
                               <<access_service_node, "rdf:type", DCAT_DataService>> >>),
            _dict, access_service_node, AccessServiceItems, FALSE, FALSE),
        _dict, access_service_node, AccessServiceListItems, TRUE, FALSE)

\* the loop over access_service_list after one access service: w holds the
\* exception, the graph and the access services done so far
AccessServiceDone(w, out, kept) ==
    [exc |-> out.exc, g |-> out.g, list |-> Append(w.list, kept)]

\* the body of the loop for one access service and its node
AccessServiceWith(w, distribution, access_service_dict, access_service_node) ==
    AccessServiceDone(w,
        AddAccessService(w.g, distribution,
                         MemberDict(access_service_dict.v, AccessServiceKeys),
                         access_service_node),
        AccessServiceKept(access_service_dict, access_service_node))

\* the body of the loop for one item of access_service_list: an item that
\* is no dict has no get()
AccessServiceStep(w, distribution, access_service_dict) ==
    IF access_service_dict.t # "dict" THEN [w EXCEPT !.exc = "AttributeError"]
    ELSE AccessServiceWith(w, distribution, access_service_dict,
             AccessServiceNode(w.g, DictGet(MemberDict(access_service_dict.v,
                                                       <<AccessServiceKeys[1]>>),
                                            "uri", None)))

\* for access_service_dict in access_service_list
RECURSIVE AccessServiceLoop(_, _, _)
AccessServiceLoop(w, distribution, items) ==
    IF items = <<>> \/ w.exc # "" THEN w
    ELSE AccessServiceLoop(AccessServiceStep(w, distribution, Head(items)),
                           distribution, Tail(items))

\* the end of the try block of a resource: a ValueError is passed over, the
\* access services written replace the text of the resource
AccessServicesLooped(w, resource_dict) ==
    IF w.exc = "ValueError" THEN [exc |-> "", g |-> w.g, resource |-> resource_dict]
    ELSE IF w.exc # "" \/ w.list = <<>>
    THEN [exc |-> w.exc, g |-> w.g, resource |-> resource_dict]
    ELSE [exc |-> "", g |-> w.g,
          resource |-> DictSet(resource_dict, "access_services",
                               PyStr(JsonDumps(PyList(w.list))))]

\* the try block of a resource, r being the outcome of json.loads: text
\* that is no JSON raises ValueError, which is passed over; a number, a
\* boolean or null cannot be iterated
AccessServicesDecoded(gr, resource_dict, distribution, r) ==
    IF ~r.ok THEN [exc |-> "", g |-> gr, resource |-> resource_dict]
    ELSE IF r.val.t \in {"int", "float", "bool", "NoneType"}
    THEN [exc |-> "TypeError", g |-> gr, resource |-> resource_dict]
    ELSE AccessServicesLooped(
             AccessServiceLoop([exc |-> "", g |-> gr, list |-> <<>>], distribution,
                               IterItems(r.val)),
             resource_dict)

\* json.loads(resource_dict.get('access_services', '[]')) and what follows;
\* json.loads of a value that is no str raises TypeError
AddAccessServices(gr, resource_dict, distribution, access_services) ==
    IF access_services.t # "str"
    THEN [exc |-> "TypeError", g |-> gr, resource |-> resource_dict]
    ELSE AccessServicesDecoded(gr, resource_dict, distribution,
                               JsonLoads(access_services.v))

\* the body of the "Resources" loop of DCAT-AP 2 for one resource
AddResource2(gr, resource_dict, distribution) ==
    AddAccessServices(
        add_triples_from_dict(gr, resource_dict, distribution, DistributionItems2,
                              FALSE, FALSE).g,
        resource_dict, distribution,
        DictGet(resource_dict, "access_services", PyStr(<<"[", "]">>)))

RECURSIVE AddResources2(_, _, _)

\* the "Resources" loop of DCAT-AP 2 after one resource: an exception ends
\* it, the resources keep what was written into them
AddNextResources2(out, resources, done) ==
    IF out.exc # ""
    THEN [exc |-> out.exc, g |-> out.g, list |-> done \o <<out.resource>> \o resources]
    ELSE AddResources2(out.g, resources, Append(done, out.resource))

\* graph_from_dataset of DCAT-AP 2, "Resources"
AddResources2(gr, resources, done) ==
    IF resources = <<>> THEN [exc |-> "", g |-> gr, list |-> done]
    ELSE AddNextResources2(AddResource2(gr, Head(resources),
                                        CleanedURIRef(resource_uri(Head(resources)))),
                           Tail(resources), done)

\* the outcome of graph_from_dataset of DCAT-AP 2: the exception raised
\* ("" for none), the graph and the dataset dict, whose resources were
\* written into
Wrote2(exc, gr, dataset_dict_) == [exc |-> exc, g |-> gr, dict |-> dataset_dict_]

\* the dataset dict with the resources the loop leaves
ResourcesWritten(w, dataset_dict_) ==
    Wrote2(w.exc, w.g,
           IF "resources" \in DOMAIN dataset_dict_
           THEN DictSet(dataset_dict_, "resources", PyList(w.list))
           ELSE dataset_dict_)

\* graph_from_dataset of DCAT-AP 2 from "Temporal" on; w is the outcome of
\* writing the lists
GraphFromDataset2Lists(w, dataset_dict_, dataset_ref) ==
    IF w.exc # "" THEN Wrote2(w.exc, w.g, dataset_dict_)
    ELSE ResourcesWritten(
             AddResources2(
                 AddSpatialResolution(
                     AddSpatial2(AddTemporal2(w.g, dataset_dict_, dataset_ref),
                                 dataset_dict_, dataset_ref),
                     dataset_ref,
                     read_list_value(get_dict_value(dataset_dict_,
                                                    "spatial_resolution_in_meters",
                                                    None))),
                 DictGet(dataset_dict_, "resources", PyList(<<>>)).v, <<>>),
             dataset_dict_)

\* graph_from_dataset of DCAT-AP 2 after the call of the super method, w
\* being its outcome
GraphFromDataset2After(w, dataset_dict_, dataset_ref) ==
    IF w.exc # "" THEN Wrote2(w.exc, w.g, dataset_dict_)
    ELSE GraphFromDataset2Lists(AddLists2(w.g, dataset_dict_, dataset_ref),
                                dataset_dict_, dataset_ref)

\* EuropeanDCATAP2Profile.graph_from_dataset: the exception raised ("" for
\* none), the graph it leaves and the dataset dict
graph_from_dataset_2(gr, cfg, dataset_dict_, dataset_ref) ==
    GraphFromDataset2After(graph_from_dataset(gr, cfg, dataset_dict_, dataset_ref),
                           dataset_dict_, dataset_ref)

-----------------------------------------------------------------------------
(* Calls.  `input` holds the arguments the caller has ready: Init draws    *)
(* them from bounded sets.  Each action is one call of one method: it      *)
(* records the call and its outcome in `last` and changes the state the    *)
(* method changes.                                                         *)


NoCall == [op |-> "init", arg |-> <<>>, exc |-> "", val |-> None]

\* a call that returned val
Returned(op, arg, val) == [op |-> op, arg |-> arg, exc |-> "", val |-> val]

\* a call that raised exc
Raised(op, arg, exc) == [op |-> op, arg |-> arg, exc |-> exc, val |-> None]

\* ckan.locale_default, ckanext.dcat.expose_subcatalogs,
\* ckanext.dcat.normalize_ckan_format and ckanext.dcat.resource.inherit.license
\* as the deployment sets them
Config(locale, subcatalogs, normalize, inherit_license) ==
    [locale_default |-> locale, expose_subcatalogs |-> subcatalogs,
     normalize_ckan_format |-> normalize, resource_inherit_license |-> inherit_license]

DefaultConfig == Config(<<"e", "n">>, FALSE, FALSE, FALSE)

\* CleanedURIRef(value)
CallCleanedURIRef ==
    /\ input.f = "CleanedURIRef"
    /\ last' = Returned("CleanedURIRef", input.value, CleanedURIRef(input.value))
    /\ UNCHANGED <<g, dataset_dict, licenceregister_cache, config, license_register, input>>

\* the caller hands the URIRef it got to CleanedURIRef again
CallCleanedURIRefAgain ==
    /\ last.op = "CleanedURIRef"
    /\ last' = Returned("CleanedURIRef", Str(last.val), CleanedURIRef(Str(last.val)))
    /\ UNCHANGED <<g, dataset_dict, licenceregister_cache, config, license_register, input>>

\* self._get_dict_value(dataset_dict, key, default)
CallGetDictValue ==
    /\ input.f = "_get_dict_value"
    /\ last' = Returned("_get_dict_value",
                        [_dict |-> dataset_dict, key |-> input.key,
                         default |-> input.default],
                        get_dict_value(dataset_dict, input.key, input.default))
    /\ UNCHANGED <<g, dataset_dict, licenceregister_cache, config, license_register, input>>

\* self._read_list_value(value)
CallReadListValue ==
    /\ input.f = "_read_list_value"
    /\ last' = Returned("_read_list_value", input.value, read_list_value(input.value))
    /\ UNCHANGED <<g, dataset_dict, licenceregister_cache, config, license_register, input>>

-----------------------------------------------------------------------------
(* Specification SpecURI: CleanedURIRef on every short string *)

UriAlphabet == {"a", " ", "\t", ",", "%", "2", "0"}

UriInputs ==
    {[f |-> "CleanedURIRef", value |-> s] : s \in SeqsUpTo(UriAlphabet, MaxUriLen)}

InitURI ==
    /\ g = <<>>
    /\ dataset_dict = EmptyDict
    /\ licenceregister_cache = None
    /\ license_register = LicenseRegisterItems
    /\ config = DefaultConfig
    /\ input \in UriInputs
    /\ last = NoCall

NextURI == CallCleanedURIRef \/ CallCleanedURIRefAgain

SpecURI == InitURI /\ [][NextURI]_vars

\* C2: cleaning an already cleaned reference returns it unchanged:
\* whenever CleanedURIRef is applied to the text of a URIRef that
\* CleanedURIRef returned, the result is that same URIRef.
C2_CleaningIsIdempotent ==
    [][(last.op = "CleanedURIRef" /\ last'.op = "CleanedURIRef"
            /\ last'.arg = Str(last.val))
        => last'.val = last.val]_vars

\* a string with a space inside, spaces around and an encoded sequence was
\* cleaned, and the result was cleaned again
C2_Witness ==
    /\ last.op = "CleanedURIRef"
    /\ input.value = <<" ", ",", "%">>
    /\ last.arg = <<"%", "2", "C", "%">>
    /\ last.val = URIRef(<<"%", "2", "C", "%">>)

-----------------------------------------------------------------------------
(* Specification SpecAccessor: the record accessors on small dicts and     *)
(* strings                                                                 *)

\* most entries in the extras list of a dict
MaxExtras == 2

\* longest string handed to _read_list_value
MaxListStrLen == 3

ExtraEntries ==
    {[key |-> k, value |-> PyStr(v)] :
        k \in {"issued", "dcat_issued", "modified"}, v \in {<<"x">>, <<"y">>}}

\* dicts with or without a top-level "issued" (possibly empty) and with or
\* without an extras list
AccessorDicts ==
    {top @@ ex :
        top \in {EmptyDict, [issued |-> PyStr(<<>>)], [issued |-> PyStr(<<"z">>)]},
        ex \in {EmptyDict} \cup
               {[extras |-> PyList(e)] : e \in SeqsUpTo(ExtraEntries, MaxExtras)}}

GetDictValueInputs ==
    {[f |-> "_get_dict_value", key |-> k, default |-> d] :
        k \in {"issued", "modified"}, d \in {None, PyStr(<<"d">>)}}

ListAlphabet == {"1", ",", "a", "[", "]", "\""}

\* JSON texts longer than MaxListStrLen that the alphabet cannot spell
JsonTexts ==
    {<<"t", "r", "u", "e">>, <<"f", "a", "l", "s", "e">>, <<"n", "u", "l", "l">>,
     <<"{", "}">>, <<" ", "1", "2", " ">>, <<"[", "1", ",", " ", "\"", "a", "\"", "]">>,
     <<"[", "t", "r", "u", "e", "]">>, <<"t", "r", "u", "e", ",", "1">>,
     <<"1", ".", "5">>, <<"1", ".">>, <<"{", "\"", "a", "\"", ":", "1", "}">>}

ReadListValueInputs ==
    {[f |-> "_read_list_value", value |-> v] :
        v \in {PyStr(s) : s \in SeqsUpTo(ListAlphabet, MaxListStrLen) \cup JsonTexts}
              \cup {PyList(<<>>), PyList(<<PyStr(<<"a", ",", "b">>)>>),
                    PyList(<<PyStr(<<"a">>), PyStr(<<"1">>)>>)}}

InitAccessor ==
    /\ g = <<>>
    /\ licenceregister_cache = None
    /\ license_register = LicenseRegisterItems
    /\ config = DefaultConfig
    /\ \/ input \in GetDictValueInputs /\ dataset_dict \in AccessorDicts
       \/ input \in ReadListValueInputs /\ dataset_dict = EmptyDict
    /\ last = NoCall

NextAccessor == CallGetDictValue \/ CallReadListValue

SpecAccessor == InitAccessor /\ [][NextAccessor]_vars

\* the positions of the extras entries of d stored under key or dcat_<key>
ExtrasHits(d, key) ==
    LET extras == IF "extras" \in DOMAIN d THEN d["extras"].v ELSE <<>>
    IN {i \in 1..Len(extras) :
            extras[i].key = key \/ extras[i].key = "dcat_" \o key}

\* C9: _get_dict_value returns the top-level value when the key is present
\* at the top level (even if empty), otherwise the value of the first extras
\* entry whose key is key or dcat_<key>, otherwise the default; the dict is
\* the same after the call as before it.
C9_GetDictValue ==
    last.op = "_get_dict_value" =>
        LET d == last.arg._dict
            key == last.arg.key
            hits == ExtrasHits(d, key)
        IN /\ key \in DOMAIN d => last.val = d[key]
           /\ (key \notin DOMAIN d /\ hits # {}) =>
                 last.val = d["extras"].v[Min(hits)].value
           /\ (key \notin DOMAIN d /\ hits = {}) => last.val = last.arg.default
           /\ dataset_dict = d
           /\ last.exc = ""

\* the key is absent at the top level and two extras entries match it, the
\* legacy dcat_ entry first: the legacy entry's value was returned
C9_Witness ==
    /\ last.op = "_get_dict_value"
    /\ last.arg.key = "issued"
    /\ "issued" \notin DOMAIN dataset_dict
    /\ "extras" \in DOMAIN dataset_dict
    /\ dataset_dict["extras"].v =
          <<[key |-> "dcat_issued", value |-> PyStr(<<"y">>)],
            [key |-> "issued", value |-> PyStr(<<"x">>)]>>
    /\ last.val = PyStr(<<"y">>)

\* what C10 describes for a str argument, given which decoded values count
\* as "scalar numbers" that get wrapped
ReadListValueAsClaimed(value, wrapped) ==
    LET r == JsonLoads(value.v)
    IN IF r.ok
       THEN (IF r.val.t \in wrapped THEN PyList(<<r.val>>) ELSE r.val)
       ELSE IF \E i \in 1..Len(value.v) : value.v[i] = ","
       THEN PyList([i \in 1..Len(Split(value.v, ",")) |->
                        PyStr(Split(value.v, ",")[i])])
       ELSE PyList(<<value>>)

\* C10 as stated: a list is returned unchanged; a str that is valid JSON
\* gives the decoded value, a decoded number wrapped into a one-element list
\* (and nothing else wrapped); a str that is not valid JSON gives its pieces
\* between commas, or the one-element list of the whole string.
C10_AsStated ==
    last.op = "_read_list_value" =>
        /\ last.arg.t = "list" => last.val = last.arg
        /\ last.arg.t = "str" =>
              last.val = ReadListValueAsClaimed(last.arg, {"int", "float"})

\* C10 as amended: the same, with a decoded true or false wrapped into a
\* one-element list like a decoded number.
C10_ReadListValue ==
    last.op = "_read_list_value" =>
        /\ last.arg.t = "list" => last.val = last.arg
        /\ last.arg.t = "str" =>
              last.val = ReadListValueAsClaimed(last.arg, {"int", "float", "bool"})

\* the str "true" is JSON and the decoded True came back in a one-element list
C10_Witness ==
    /\ last.op = "_read_list_value"
    /\ last.arg = PyStr(<<"t", "r", "u", "e">>)
    /\ last.val = PyList(<<PyBool(<<"t", "r", "u", "e">>)>>)


-----------------------------------------------------------------------------
(* Calls on a graph: _object_value, _distribution_format, _license *)

\* self._object_value(subject, predicate)
CallObjectValue ==
    /\ input.f = "_object_value"
    /\ last' = Returned("_object_value",
                        [subject |-> input.subject, predicate |-> input.predicate],
                        PyStr(object_value(g, config, input.subject, input.predicate)))
    /\ UNCHANGED <<g, dataset_dict, licenceregister_cache, config, license_register, input>>

\* self._distribution_format(distribution, normalize_ckan_format)
CallDistributionFormat ==
    /\ input.f = "_distribution_format"
    /\ last' = Returned("_distribution_format",
                        [distribution |-> input.distribution,
                         normalize_ckan_format |-> input.normalize_ckan_format],
                        [t |-> "tuple",
                         v |-> distribution_format(g, config, input.distribution,
                                                   input.normalize_ckan_format)])
    /\ UNCHANGED <<g, dataset_dict, licenceregister_cache, config, license_register, input>>

\* self._license(dataset_ref): the first call fills the cache
CallLicense ==
    /\ input.f = "_license"
    /\ last' = Returned("_license", input.dataset_ref,
                        PyStr(license(g, config, licenceregister_cache,
                                      license_register, input.dataset_ref)))
    /\ licenceregister_cache' = LicenseCacheAfter(licenceregister_cache,
                                                  license_register)
    /\ UNCHANGED <<g, dataset_dict, config, license_register, input>>

\* self._publisher(subject, predicate)
CallPublisher ==
    /\ input.f = "_publisher"
    /\ last' = Returned("_publisher",
                        [subject |-> input.subject, predicate |-> input.predicate],
                        publisher(g, config, input.subject, input.predicate))
    /\ UNCHANGED <<g, dataset_dict, licenceregister_cache, config, license_register, input>>

\* self._spatial(subject, predicate)
CallSpatial ==
    /\ input.f = "_spatial"
    /\ last' = Returned("_spatial",
                        [subject |-> input.subject, predicate |-> input.predicate],
                        spatial(g, input.subject, input.predicate))
    /\ UNCHANGED <<g, dataset_dict, licenceregister_cache, config, license_register, input>>

\* most triples in a graph handed to the graph accessor
MaxGraphTriples == 4

\* the nodes of the graphs
TheDataset == URIRef(<<"d">>)
Dist1 == URIRef(<<"r", "1">>)
Dist2 == URIRef(<<"r", "2">>)
FormatNode == BNode(<<"f">>)
LicenseNode == BNode(<<"n">>)

\* titles of a dataset in several languages, and other objects
TitleTriples ==
    {<<TheDataset, "dct:title", LiteralLang(<<"x">>, <<"e", "n">>)>>,
     <<TheDataset, "dct:title", Literal(<<"y">>)>>,
     <<TheDataset, "dct:title", LiteralLang(<<"z">>, <<"d", "e">>)>>,
     <<TheDataset, "dct:title", URIRef(<<"u">>)>>,
     <<TheDataset, "dct:description", Literal(<<"w">>)>>}

\* formats and media types of a distribution
FormatTriples ==
    {<<Dist1, "dct:format", Literal(<<"C", "S", "V">>)>>,
     <<Dist1, "dct:format", Literal(<<"t", "e", "x", "t", "/", "c", "s", "v">>)>>,
     <<Dist1, "dcat:mediaType", Literal(<<"t", "e", "x", "t", "/", "c", "s", "v">>)>>,
     <<Dist1, "dct:format", FormatNode>>,
     <<FormatNode, "rdf:type", DCT_IMT>>,
     <<FormatNode, "rdfs:label", Literal(<<"c", "s", "v">>)>>,
     <<Dist1, "dct:format", URIRef(<<"h", "t", "t", "p", ":", "/", "/", "i", "a", "n", "a", ".", "o", "r", "g", "/", "a", "s", "s", "i", "g", "n", "m", "e", "n", "t", "s", "/", "m", "e", "d", "i", "a", "-", "t", "y", "p", "e", "s", "/", "x">>)>>}

\* distributions of a dataset and their licenses
LicenseTriples ==
    {<<TheDataset, "dcat:distribution", Dist1>>,
     <<TheDataset, "dcat:distribution", Dist2>>,
     <<Dist1, "dct:license", URIRef(<<"h", "t", "t", "p", ":", "/", "/", "l", "/", "b", "y">>)>>,
     <<Dist2, "dct:license", URIRef(<<"h", "t", "t", "p", ":", "/", "/", "l", "/", "z", "e", "r", "o">>)>>,
     <<Dist1, "dct:license", Literal(<<"o", "t", "h", "e", "r">>)>>,
     <<Dist2, "dct:license", LicenseNode>>,
     <<LicenseNode, "dct:title", Literal(<<"B", "Y">>)>>,
     <<URIRef(<<"h", "t", "t", "p", ":", "/", "/", "l", "/", "z", "e", "r", "o">>), "dct:title", Literal(<<"B", "Y">>)>>}

\* two publishers of a dataset and their properties
Agent1 == URIRef(<<"p", "1">>)
Agent2 == BNode(<<"p", "2">>)

PublisherTriples ==
    {<<TheDataset, "dct:publisher", Agent1>>,
     <<TheDataset, "dct:publisher", Agent2>>,
     <<Agent1, "foaf:name", Literal(<<"N">>)>>,
     <<Agent1, "foaf:mbox", Literal(<<"a">>)>>,
     <<Agent2, "foaf:name", Literal(<<"M">>)>>,
     <<Agent2, "foaf:mbox", Literal(<<"b">>)>>}

\* most geometry literals on the spatial nodes of a graph
MaxGeometries == 3

\* two spatial nodes of a dataset, and geometry literals for them
Location1 == BNode(<<"l", "1">>)
Location2 == BNode(<<"l", "2">>)
OtherGeoJson == <<"{", "\"", "t", "y", "p", "e", "\"", ":", " ", "\"", "P", "o", "i", "n", "t", "\"", ",", " ", "\"", "c", "o", "o", "r", "d", "i", "n", "a", "t", "e", "s", "\"", ":", " ", "[", "2", ",", " ", "2", "]", "}">>

SpatialNodes ==
    <<<<TheDataset, "dct:spatial", Location1>>,
      <<TheDataset, "dct:spatial", Location2>>,
      <<Location1, "rdf:type", DCT_Location>>,
      <<Location2, "rdf:type", DCT_Location>>>>

GeometryTriples ==
    {<<Location1, "locn:geometry", LiteralTyped(WktPointGeoJson, GEOJSON_IMT)>>,
     <<Location1, "locn:geometry", Literal(OtherGeoJson)>>,
     <<Location1, "locn:geometry", LiteralTyped(WktPoint, GSP_wktLiteral)>>,
     <<Location1, "locn:geometry", Literal(<<"x">>)>>,
     <<Location2, "locn:geometry", LiteralTyped(OtherGeoJson, GEOJSON_IMT)>>,
     <<Location2, "locn:geometry", LiteralTyped(WktPoint, GSP_wktLiteral)>>,
     <<Location1, "dcat:bbox", LiteralTyped(WktPoint, GSP_wktLiteral)>>,
     <<Location2, "dcat:bbox", LiteralTyped(OtherGeoJson, GEOJSON_IMT)>>}

InitGraph ==
    /\ dataset_dict = EmptyDict
    /\ licenceregister_cache = None
    /\ license_register = LicenseRegisterItems
    /\ last = NoCall
    /\ \/ /\ g \in InjSeqsUpTo(TitleTriples, MaxGraphTriples)
          /\ config \in {Config(locale, FALSE, FALSE, FALSE) : locale \in {<<"e", "n">>, <<"d", "e">>}}
          /\ input \in {[f |-> "_object_value", subject |-> TheDataset,
                         predicate |-> "dct:title"]}
       \/ /\ g \in InjSeqsUpTo(FormatTriples, MaxGraphTriples)
          /\ config = DefaultConfig
          /\ input \in {[f |-> "_distribution_format", distribution |-> Dist1,
                         normalize_ckan_format |-> n] : n \in BOOLEAN}
       \/ /\ g \in InjSeqsUpTo(LicenseTriples, MaxGraphTriples)
          /\ config = DefaultConfig
          /\ input \in {[f |-> "_license", dataset_ref |-> TheDataset]}
       \/ /\ g \in InjSeqsUpTo(PublisherTriples, MaxGraphTriples)
          /\ config = DefaultConfig
          /\ input \in {[f |-> "_publisher", subject |-> TheDataset,
                         predicate |-> "dct:publisher"]}
       \/ /\ g \in {SpatialNodes \o tail : tail \in InjSeqsUpTo(GeometryTriples, MaxGeometries)}
          /\ config = DefaultConfig
          /\ input \in {[f |-> "_spatial", subject |-> TheDataset,
                         predicate |-> "dct:spatial"]}

NextGraph ==
    \/ CallObjectValue
    \/ CallDistributionFormat
    \/ CallLicense
    \/ CallPublisher
    \/ CallSpatial

SpecGraph == InitGraph /\ [][NextGraph]_vars

\* C3 as the claim states it: with dcat:mediaType absent and normalization off,
\* _distribution_format returns (None, "CSV") for the format literal "CSV"
\* and ("text/csv", None) for the format literal "text/csv".
C3_AsStated ==
    (/\ last.op = "_distribution_format"
     /\ ~last.arg.normalize_ckan_format
     /\ Objects(g, last.arg.distribution, "dcat:mediaType") = <<>>)
    => /\ object(g, last.arg.distribution, "dct:format") = Literal(<<"C", "S", "V">>)
          => last.val.v = <<None, PyStr(<<"C", "S", "V">>)>>
       /\ object(g, last.arg.distribution, "dct:format") = Literal(<<"t", "e", "x", "t", "/", "c", "s", "v">>)
          => last.val.v = <<PyStr(<<"t", "e", "x", "t", "/", "c", "s", "v">>), None>>

\* the id the license register gives the license of a distribution: the id of
\* the license with its URI, else of the license with its dct:title, else ""
RegistryId(gr, cfg, distribution) ==
    LET items == LicenseRegisterItems
        license_ == object(gr, distribution, "dct:license")
        by_uri == {i \in 1..Len(items) : items[i].url = Str(license_)}
        by_title == {i \in 1..Len(items) :
                        items[i].title = object_value(gr, cfg, license_, "dct:title")}
    IN IF license_.kind = "None" \/ Str(license_) = <<>> THEN <<>>
       ELSE IF by_uri # {} THEN items[CHOOSE i \in by_uri : TRUE].id
       ELSE IF by_title # {} THEN items[CHOOSE i \in by_title : TRUE].id
       ELSE <<>>

\* C5: _license returns the register id of the first distribution, in
\* iteration order, whose license the register knows (by URI, else by title),
\* whatever later distributions match, and "" when none matches.
C5_FirstMatchingLicense ==
    last.op = "_license" =>
        LET dists == distributions(g, last.arg)
            matching == {i \in 1..Len(dists) : RegistryId(g, config, dists[i]) # <<>>}
        IN last.val = PyStr(IF matching = {} THEN <<>>
                            ELSE RegistryId(g, config, dists[Min(matching)]))

\* two distributions match different licenses and the first one's id is returned
C5_Witness ==
    /\ last.op = "_license"
    /\ LET dists == distributions(g, last.arg)
       IN /\ Len(dists) = 2
          /\ RegistryId(g, config, dists[1]) # <<>>
          /\ RegistryId(g, config, dists[2]) # <<>>
          /\ RegistryId(g, config, dists[1]) # RegistryId(g, config, dists[2])
          /\ last.val = PyStr(RegistryId(g, config, dists[1]))

\* C6: with exactly two literal objects, one tagged with the default locale
\* and one not, _object_value returns the text of the tagged one in either
\* iteration order.
C6_DefaultLocaleWins ==
    last.op = "_object_value" =>
        LET os == Objects(g, last.arg.subject, last.arg.predicate)
        IN (/\ Len(os) = 2
            /\ \A i \in 1..2 : os[i].kind = "Literal"
            /\ \E i \in 1..2 : /\ os[i].language = config.locale_default
                               /\ os[3 - i].language # config.locale_default)
           => \E i \in 1..2 : /\ os[i].language = config.locale_default
                              /\ last.val = PyStr(Str(os[i]))

\* the literal of the default locale is iterated second and is the one returned
C6_Witness ==
    /\ last.op = "_object_value"
    /\ LET os == Objects(g, last.arg.subject, last.arg.predicate)
       IN /\ Len(os) = 2
          /\ os[1].kind = "Literal" /\ os[1].language # config.locale_default
          /\ os[2].kind = "Literal" /\ os[2].language = config.locale_default
          /\ last.val = PyStr(Str(os[2]))

\* C17 as the claim states it: with several agents, every field of the
\* dict of _publisher is the value of the last agent, in iteration order,
\* that supplies the field, and "" when no agent supplies it.
C17_AsStated ==
    last.op = "_publisher" =>
        LET agents == Objects(g, last.arg.subject, last.arg.predicate)
        IN agents # <<>> =>
              \A k \in {"uri", "name", "email", "url", "type"} :
                 LET supplying == {i \in 1..Len(agents) :
                                      PublisherOf(g, config, agents[i])[k] # <<>>}
                 IN last.val[k] =
                        IF supplying = {} THEN <<>>
                        ELSE PublisherOf(g, config,
                                         agents[CHOOSE i \in supplying :
                                                    \A j \in supplying : j <= i])[k]

\* C17, amended: the dict of _publisher is the five fields of the last agent
\* in iteration order alone, "" for each field that agent lacks whatever the
\* earlier agents supply, and the empty dict when there is no agent.
C17_LastAgentWholesale ==
    last.op = "_publisher" =>
        LET agents == Objects(g, last.arg.subject, last.arg.predicate)
        IN last.val = IF agents = <<>> THEN EmptyDict
                      ELSE [uri |-> IF agents[Len(agents)].kind = "URIRef"
                                    THEN agents[Len(agents)].value ELSE <<>>,
                            name |-> object_value(g, config, agents[Len(agents)], "foaf:name"),
                            email |-> object_value(g, config, agents[Len(agents)], "foaf:mbox"),
                            url |-> object_value(g, config, agents[Len(agents)], "foaf:homepage"),
                            type |-> object_value(g, config, agents[Len(agents)], "dct:type")]

\* the first agent has a name and a URI, the last agent has neither, and the
\* dict has the last agent's email with an empty name and an empty uri
C17_Witness ==
    /\ last.op = "_publisher"
    /\ LET agents == Objects(g, last.arg.subject, last.arg.predicate)
       IN /\ Len(agents) = 2
          /\ object_value(g, config, agents[1], "foaf:name") # <<>>
          /\ agents[1].kind = "URIRef"
          /\ object_value(g, config, agents[2], "foaf:name") = <<>>
          /\ object_value(g, config, agents[2], "foaf:mbox") # <<>>
          /\ last.val.name = <<>>
          /\ last.val.uri = <<>>
          /\ last.val.email = object_value(g, config, agents[2], "foaf:mbox")

\* the literals of one slot over the spatial nodes that are dct:Location, in
\* the order _spatial and _parse_geodata iterate them
RECURSIVE SlotLiterals(_, _, _)
SlotLiterals(gr, spatials, predicate) ==
    IF spatials = <<>> THEN <<>>
    ELSE (IF \E i \in 1..Len(gr) : gr[i] = <<Head(spatials), "rdf:type", DCT_Location>>
          THEN Objects(gr, Head(spatials), predicate) ELSE <<>>)
         \o SlotLiterals(gr, Tail(spatials), predicate)

SlotPredicates ==
    [geom |-> "locn:geometry", bbox |-> "dcat:bbox", centroid |-> "dcat:centroid"]

\* a literal _parse_geodata reads as GeoJSON, and one it converts from WKT
IsGeoJsonLiteral(lit) == lit.datatype \in {GEOJSON_IMT, ""} /\ JsonLoads(lit.value).ok
IsWktLiteral(lit) == lit.datatype = GSP_wktLiteral /\ WktToGeoJson(lit.value).t = "str"

\* C20 as the claim states it: in the dict of _spatial each of geom, bbox and
\* centroid is the first valid GeoJSON literal of the slot over the spatial
\* nodes in iteration order, whatever GeoJSON literal follows it, and the
\* conversion of the first valid WKT literal only when the slot has no valid
\* GeoJSON literal.
C20_AsStated ==
    last.op = "_spatial" =>
        \A slot \in DOMAIN SlotPredicates :
            LET lits == SlotLiterals(g, Objects(g, last.arg.subject, last.arg.predicate),
                                     SlotPredicates[slot])
                geo == {i \in 1..Len(lits) : IsGeoJsonLiteral(lits[i])}
                wkts == {i \in 1..Len(lits) : IsWktLiteral(lits[i])}
            IN last.val[slot] =
                  IF geo # {} THEN PyStr(Str(lits[Min(geo)]))
                  ELSE IF wkts # {} THEN WktToGeoJson(Str(lits[Min(wkts)]))
                  ELSE None

\* C20, amended: each of geom, bbox and centroid is the last valid GeoJSON
\* literal of the slot over the spatial nodes in iteration order (a later
\* GeoJSON literal replaces an earlier one and a value converted from WKT),
\* and the conversion of the first valid WKT literal only when the slot has
\* no valid GeoJSON literal; None when it has neither.
C20_LastGeoJsonWins ==
    last.op = "_spatial" =>
        \A slot \in DOMAIN SlotPredicates :
            LET lits == SlotLiterals(g, Objects(g, last.arg.subject, last.arg.predicate),
                                     SlotPredicates[slot])
                geo == {i \in 1..Len(lits) : IsGeoJsonLiteral(lits[i])}
                wkts == {i \in 1..Len(lits) : IsWktLiteral(lits[i])}
            IN last.val[slot] =
                  IF geo # {}
                  THEN PyStr(Str(lits[CHOOSE i \in geo : \A j \in geo : j <= i]))
                  ELSE IF wkts # {} THEN WktToGeoJson(Str(lits[Min(wkts)]))
                  ELSE None

\* two different valid GeoJSON literals are iterated for the geometry slot
\* and the dict holds the second one
C20_Witness ==
    /\ last.op = "_spatial"
    /\ LET lits == SlotLiterals(g, Objects(g, last.arg.subject, last.arg.predicate),
                                "locn:geometry")
       IN /\ Len(lits) >= 2
          /\ IsGeoJsonLiteral(lits[1])
          /\ IsGeoJsonLiteral(lits[Len(lits)])
          /\ lits[1].value # lits[Len(lits)].value
          /\ last.val.geom = PyStr(lits[Len(lits)].value)

-----------------------------------------------------------------------------
(* Calls of the parser: _get_source_catalog and parse_dataset *)

\* what the caller has in hand after a call that returned or raised
Finished(op, arg, out) == [op |-> op, arg |-> arg, exc |-> out.exc, val |-> out.val]

\* self._get_source_catalog(dataset_ref)
CallGetSourceCatalog ==
    /\ input.f = "parse_dataset"
    /\ last.op = "init"
    /\ last' = Finished("_get_source_catalog", input.dataset_ref,
                        get_source_catalog(g, config, input.dataset_ref))
    /\ UNCHANGED <<g, dataset_dict, licenceregister_cache, config, license_register, input>>

\* the caller is about to parse: it was asked to, or it has just serialized
\* a dataset into the graph
ParseReady ==
    IF input.f = "graph_from_dataset"
    THEN last.op = "graph_from_dataset" /\ last.exc = ""
    ELSE input.f = "parse_dataset"

\* the state parse_dataset leaves behind, out being its outcome
Parsed(out) ==
    /\ dataset_dict' = out.dict
    /\ licenceregister_cache' = out.cache
    /\ last' = [op |-> "parse_dataset", arg |-> input.dataset_ref,
                exc |-> out.exc, val |-> None]

\* profile.parse_dataset(dataset_dict, dataset_ref): the dict is filled in
\* place, so an exception leaves it as far as the call got
CallParseDataset ==
    /\ ParseReady
    /\ Parsed(parse_dataset(g, config, licenceregister_cache,
                            input.compatibility_mode, dataset_dict,
                            input.dataset_ref))
    /\ UNCHANGED <<g, config, license_register, input>>

\* most triples in a graph handed to the parser
MaxParseTriples == 4

Catalog0 == URIRef(<<"c", "0">>)
Catalog1 == URIRef(<<"c", "1">>)
Catalog2 == URIRef(<<"c", "2">>)
RightsNode == BNode(<<"b">>)

\* catalogs linking to a dataset, and its access rights
ParseTriples ==
    {<<Catalog0, "rdf:type", DCAT_Catalog>>,
     <<Catalog0, "dcat:dataset", TheDataset>>,
     <<Catalog1, "dcat:dataset", TheDataset>>,
     <<Catalog2, "dcat:dataset", TheDataset>>,
     <<TheDataset, "dct:accessRights", Literal(<<"p">>)>>,
     <<TheDataset, "dct:accessRights", RightsNode>>,
     <<RightsNode, "rdf:type", DCT_RightsStatement>>,
     <<RightsNode, "rdfs:label", Literal(<<"o">>)>>}

InitParse ==
    /\ dataset_dict = EmptyDict
    /\ licenceregister_cache = None
    /\ license_register = LicenseRegisterItems
    /\ last = NoCall
    /\ g \in InjSeqsUpTo(ParseTriples, MaxParseTriples)
    /\ config \in {Config(<<"e", "n">>, expose, FALSE, FALSE) : expose \in BOOLEAN}
    /\ input \in {[f |-> "parse_dataset", dataset_ref |-> TheDataset,
                   compatibility_mode |-> c] : c \in {FALSE}}

NextParse == CallGetSourceCatalog \/ CallParseDataset

SpecParse == InitParse /\ [][NextParse]_vars

\* the catalogs other than the detected root that link to the dataset
NonRootCatalogs(gr, dataset_ref) ==
    Range(Subjects(gr, "dcat:dataset", dataset_ref)) \ {get_root_catalog_ref(gr).val}

\* C4 as the claim states it: with sub-catalogs exposed and a root catalog
\* detected, two or more other catalogs linking to the dataset make
\* _get_source_catalog and parse_dataset fail with an assertion error; with
\* none the root is returned, with one that one.
C4_AsStated ==
    (/\ config.expose_subcatalogs
     /\ get_root_catalog_ref(g).exc = ""
     /\ last.op \in {"_get_source_catalog", "parse_dataset"})
    => LET others == NonRootCatalogs(g, last.arg)
       IN /\ Cardinality(others) >= 2 => last.exc = "AssertionError"
          /\ (last.op = "_get_source_catalog" /\ others = {})
             => last.exc = "" /\ last.val = get_root_catalog_ref(g).val
          /\ (last.op = "_get_source_catalog" /\ Cardinality(others) = 1)
             => last.exc = "" /\ last.val \in others

\* C15 as the claim states it: with sub-catalog exposure enabled and a graph
\* with no dct:hasPart subject and no node typed dcat:Catalog (and a dataset
\* without access rights), _get_source_catalog and parse_dataset complete
\* without raising, the source catalog being None.
C15_AsStated ==
    (/\ config.expose_subcatalogs
     /\ last.op \in {"_get_source_catalog", "parse_dataset"}
     /\ SubjectsOf(g, "dct:hasPart") = <<>>
     /\ Subjects(g, "rdf:type", DCAT_Catalog) = <<>>
     /\ Objects(g, last.arg, "dct:accessRights") = <<>>)
    => /\ last.exc = ""
       /\ last.op = "_get_source_catalog" => last.val = NoTerm

\* the rights statement of the dataset as the claim describes it: the
\* rdfs:label of a blank node typed dct:RightsStatement, else the text of
\* the literal or reference
RightsStatementOf(gr, cfg, dataset_ref) ==
    LET obj == object(gr, dataset_ref, "dct:accessRights")
    IN IF obj.kind = "BNode"
       THEN (IF <<obj, "rdf:type", DCT_RightsStatement>> \in Range(gr)
             THEN object_value(gr, cfg, obj, "rdfs:label")
             ELSE <<>>)
       ELSE Str(obj)

\* C8 as the claim states it: when the dataset has a rights statement,
\* parse_dataset completes and the extras hold it under the key accessRights.
C8_AsStated ==
    (/\ last.op = "parse_dataset"
     /\ Objects(g, last.arg, "dct:accessRights") # <<>>
     /\ RightsStatementOf(g, config, last.arg) # <<>>)
    => /\ last.exc = ""
       /\ \E i \in 1..Len(dataset_dict["extras"].v) :
             dataset_dict["extras"].v[i] =
                 [key |-> "accessRights",
                  value |-> PyStr(RightsStatementOf(g, config, last.arg))]

-----------------------------------------------------------------------------
(* Serializing a dataset and parsing it back *)

\* profile.graph_from_dataset(dataset_dict, dataset_ref)
CallGraphFromDataset ==
    /\ input.f = "graph_from_dataset"
    /\ last.op = "init"
    /\ LET out == graph_from_dataset(g, config, input.dataset_dict, input.dataset_ref)
       IN /\ g' = out.g
          /\ last' = [op |-> "graph_from_dataset", arg |-> input.dataset_ref,
                      exc |-> out.exc, val |-> None]
    /\ UNCHANGED <<dataset_dict, licenceregister_cache, config, license_register, input>>

\* most tags of a dataset
MaxTags == 2

\* names of tags: plain, with commas, with blanks around
TagNames == {<<"a">>, <<"b", ",", "c">>, <<" ", "a">>, <<"a", ",", " ", "b">>, <<",">>}

\* titles and descriptions
Titles == {<<"t">>, <<" ", "t", ",", " ">>}

\* further fields of a dataset record
MoreFields ==
    {EmptyDict,
     [version |-> PyStr(<<"1">>), issued |-> PyStr(<<"1", "9", "0", "4">>)],
     [extras |-> PyList(<<[key |-> "temporal_start", value |-> PyStr(<<"1", "9", "0", "4", "-", "0", "5">>)],
                          [key |-> "language", value |-> PyStr(<<"e", "n", ",", "d", "e">>)],
                          [key |-> "issued", value |-> PyStr(<<"1", "9", "0", "4">>)]>>)],
     [contact_name |-> PyStr(<<"c">>), contact_email |-> PyStr(<<"c", "@", "d">>),
      publisher_name |-> PyStr(<<"p">>)],
     [organization |-> PyDict([id |-> PyStr(<<"o">>), title |-> PyStr(<<"O">>)]),
      spatial_text |-> PyStr(<<"s">>), spatial |-> PyStr(WktPointGeoJson)],
     [resources |-> PyList(<<[uri |-> PyStr(<<"h", "t", "t", "p", ":", "/", "/", "r">>), name |-> PyStr(<<"r">>),
                              format |-> PyStr(<<"C", "S", "V">>), size |-> PyStr(<<"1", "2">>),
                              hash |-> PyStr(<<"a", "b">>),
                              url |-> PyStr(<<"h", "t", "t", "p", ":", "/", "/", "u">>)]>>)]}

\* the dataset records serialized
Records ==
    {[title |-> PyStr(title), notes |-> PyStr(notes),
      tags |-> PyList([i \in 1..Len(names) |-> [name |-> PyStr(names[i])]])] @@ more :
        title \in Titles, notes \in {<<"n">>},
        names \in SeqsUpTo(TagNames, MaxTags) \ {<<>>}, more \in MoreFields}

InitRoundTrip ==
    /\ g = <<>>
    /\ dataset_dict = EmptyDict
    /\ licenceregister_cache = None
    /\ license_register = LicenseRegisterItems
    /\ config = DefaultConfig
    /\ last = NoCall
    /\ input \in {[f |-> "graph_from_dataset", dataset_dict |-> record,
                   dataset_ref |-> TheDataset, compatibility_mode |-> c] :
                     record \in Records, c \in BOOLEAN}

NextRoundTrip == CallGraphFromDataset \/ CallParseDataset

SpecRoundTrip == InitRoundTrip /\ [][NextRoundTrip]_vars

\* the names of the tags of a record
TagNamesOf(record) == {record["tags"].v[i].name.v : i \in 1..Len(record["tags"].v)}

\* C1 as the claim states it: the record parsed back has the original title
\* and notes, and its tag names are the pieces of every original tag name
\* split on commas, each piece trimmed.
C1_AsStated ==
    (last.op = "parse_dataset" /\ input.f = "graph_from_dataset")
    => /\ last.exc = ""
       /\ dataset_dict["title"] = input.dataset_dict["title"]
       /\ dataset_dict["notes"] = input.dataset_dict["notes"]
       /\ TagNamesOf(dataset_dict) =
             UNION {{Strip(piece) : piece \in Range(Split(name, ","))} :
                        name \in TagNamesOf(input.dataset_dict)}

\* C1: the record parsed back has the original title and notes; its tag
\* names are, for every original tag name with a comma, its pieces split on
\* commas and trimmed, and every original tag name without a comma unchanged.
C1_RoundTrip ==
    (last.op = "parse_dataset" /\ input.f = "graph_from_dataset")
    => /\ last.exc = ""
       /\ dataset_dict["title"] = input.dataset_dict["title"]
       /\ dataset_dict["notes"] = input.dataset_dict["notes"]
       /\ TagNamesOf(dataset_dict) =
             UNION {IF "," \in Range(name)
                    THEN {Strip(piece) : piece \in Range(Split(name, ","))}
                    ELSE {name} :
                        name \in TagNamesOf(input.dataset_dict)}

\* the tags a and "b,c" come back as a, b and c
C1_Witness ==
    /\ last.op = "parse_dataset"
    /\ input.f = "graph_from_dataset"
    /\ TagNamesOf(input.dataset_dict) = {<<"a">>, <<"b", ",", "c">>}
    /\ TagNamesOf(dataset_dict) = {<<"a">>, <<"b">>, <<"c">>}

\* the entries of two extras lists pair up as the compatibility rewrite says:
\* issued, modified, publisher_name and publisher_email carry their value
\* under the key with the dcat_ prefix, language carries the languages of the
\* JSON array sorted and joined with commas, every other entry is the same
CompatRewritten(extras, plain) ==
    /\ Len(extras) = Len(plain)
    /\ \A i \in 1..Len(plain) :
          IF plain[i].key \in {"issued", "modified", "publisher_name", "publisher_email"}
          THEN extras[i] = [key |-> "dcat_" \o plain[i].key, value |-> plain[i].value]
          ELSE IF plain[i].key = "language"
          THEN /\ extras[i].key = "language"
               /\ LET langs == JsonLoads(plain[i].value.v).val.v
                      joined == Split(extras[i].value.v, ",")
                  IN /\ Len(joined) = Len(langs)
                     /\ \A j \in 1..Len(joined) :
                           Cardinality({k \in 1..Len(joined) : joined[k] = joined[j]})
                           = Cardinality({k \in 1..Len(langs) : langs[k].v = joined[j]})
                     /\ \A j \in 1..(Len(joined) - 1) : StrLeq(joined[j], joined[j + 1])
          ELSE extras[i] = plain[i]

\* C16: after parse_dataset in compatibility mode no extras entry has the
\* key issued, modified, publisher_name or publisher_email; against the
\* extras of the same parse without compatibility mode each such entry has
\* the same value under the dcat_ key, language is the sorted comma-joined
\* list, and every other entry is unchanged. With compatibility mode off no
\* key has the dcat_ prefix and language stays a JSON array.
C16_CompatibilityMode ==
    (last.op = "parse_dataset" /\ last.exc = "" /\ input.f = "graph_from_dataset")
    => IF input.compatibility_mode
       THEN /\ \A i \in 1..Len(dataset_dict["extras"].v) :
                  dataset_dict["extras"].v[i].key
                      \notin {"issued", "modified", "publisher_name", "publisher_email"}
            /\ CompatRewritten(dataset_dict["extras"].v,
                               parse_dataset(g, config, None, FALSE, EmptyDict,
                                             last.arg).dict["extras"].v)
       ELSE \A i \in 1..Len(dataset_dict["extras"].v) :
               /\ dataset_dict["extras"].v[i].key
                     \notin {"dcat_issued", "dcat_modified", "dcat_publisher_name",
                             "dcat_publisher_email"}
               /\ dataset_dict["extras"].v[i].key = "language"
                  => JsonLoads(dataset_dict["extras"].v[i].value.v).val.t = "list"

\* a record with an issued date and the languages en, de was parsed in
\* compatibility mode: the extras hold dcat_issued and the language "de,en"
C16_Witness ==
    /\ last.op = "parse_dataset"
    /\ last.exc = ""
    /\ input.f = "graph_from_dataset"
    /\ input.compatibility_mode
    /\ \E i \in 1..Len(dataset_dict["extras"].v) :
          dataset_dict["extras"].v[i] = [key |-> "dcat_issued", value |-> PyStr(<<"1", "9", "0", "4", "-", "0", "1", "-", "0", "1", "T", "0", "0", ":", "0", "0", ":", "0", "0">>)]
    /\ \E i \in 1..Len(dataset_dict["extras"].v) :
          dataset_dict["extras"].v[i] = [key |-> "language", value |-> PyStr(<<"d", "e", ",", "e", "n">>)]

-----------------------------------------------------------------------------
(* Calls of the triple writer: _add_date_triple *)

\* self._add_date_triple(subject, predicate, value)
CallAddDateTriple ==
    /\ input.f = "_add_date_triple"
    /\ g' = add_date_triple(g, input.subject, input.predicate, input.value)
    /\ last' = Returned("_add_date_triple",
                        [subject |-> input.subject, predicate |-> input.predicate,
                         value |-> input.value],
                        None)
    /\ UNCHANGED <<dataset_dict, licenceregister_cache, config, license_register, input>>

\* the date values written: empty, partial and full dates, and texts that
\* are no date
DateTexts ==
    {<<>>, <<"1", "9", "0", "4">>, <<"1", "9", "0", "4", "-", "0", "5">>, <<"1", "9", "0", "4", "-", "0", "5", "-", "0", "6">>, <<"1", "9", "0", "4", "-", "0", "5", "-", "0", "6", "T", "0", "7", ":", "0", "8", ":", "0", "9">>,
     <<"2", "0", "2", "1">>, <<"2", "0", "2", "1", "-", "1", "2">>, <<"2", "0", "2", "1", "-", "1", "2", "-", "3", "1">>, <<"x">>, <<"n", "/", "a">>}

\* str(datetime.datetime(1, 1, 1, 0, 0, 0).isoformat())
DefaultDatetime == <<"0", "0", "0", "1", "-", "0", "1", "-", "0", "1", "T", "0", "0", ":", "0", "0", ":", "0", "0">>

InitWriter ==
    /\ dataset_dict = EmptyDict
    /\ licenceregister_cache = None
    /\ license_register = LicenseRegisterItems
    /\ config = DefaultConfig
    /\ last = NoCall
    /\ g \in {<<>>,
              <<<<TheDataset, "dct:issued",
                  LiteralTyped(<<"1", "9", "0", "4", "-", "0", "1", "-", "0", "1", "T", "0", "0", ":", "0", "0", ":", "0", "0">>, XSD_dateTime)>>>>}
    /\ input \in {[f |-> "_add_date_triple", subject |-> s, predicate |-> p,
                   value |-> v] :
                     s \in {TheDataset, Dist1}, p \in {"dct:issued", "dct:modified"},
                     v \in {PyStr(text) : text \in DateTexts} \cup {None}}

NextWriter == CallAddDateTriple

SpecWriter == InitWriter /\ [][NextWriter]_vars

\* a date text with leading components only: YYYY, YYYY-MM, YYYY-MM-DD or
\* YYYY-MM-DDTHH:MM:SS
IsPartialDate(text) ==
    /\ Len(text) \in {4, 7, 10, 19}
    /\ \A i \in 1..Len(text) :
          IF DefaultDatetime[i] \in Digits THEN text[i] \in Digits
          ELSE text[i] = DefaultDatetime[i]

\* C7: _add_date_triple adds nothing for an empty value; for a partial date
\* it adds exactly one literal typed xsd:dateTime whose text is the value
\* followed by the missing components of 0001-01-01T00:00:00, so "1904"
\* gives "1904-01-01T00:00:00".
C7_AddDateTriple ==
    [][last'.op = "_add_date_triple" =>
         LET value == last'.arg.value
             filled == value.v \o SubSeq(DefaultDatetime, Len(value.v) + 1, 19)
         IN /\ ~Truthy(value) => g' = g
            /\ (Truthy(value) /\ IsPartialDate(value.v))
               => /\ g' = GraphAdd(g, <<last'.arg.subject, last'.arg.predicate,
                                       LiteralTyped(filled, XSD_dateTime)>>)
                  /\ value.v = <<"1", "9", "0", "4">> => filled = <<"1", "9", "0", "4", "-", "0", "1", "-", "0", "1", "T", "0", "0", ":", "0", "0", ":", "0", "0">>]_vars

\* "1904" was written to an empty graph as the one literal "1904-01-01T00:00:00"
C7_Witness ==
    /\ last.op = "_add_date_triple"
    /\ last.arg.value = PyStr(<<"1", "9", "0", "4">>)
    /\ g = <<<<last.arg.subject, last.arg.predicate,
               LiteralTyped(<<"1", "9", "0", "4", "-", "0", "1", "-", "0", "1", "T", "0", "0", ":", "0", "0", ":", "0", "0">>, XSD_dateTime)>>>>
    /\ last.arg.predicate = "dct:modified"


-----------------------------------------------------------------------------
(* The license register memo: _license called again and again on profile
   instances while the register of the CKAN instance changes *)

\* RDFProfile(graph): a new profile instance on the same graph
NewProfile ==
    /\ input.f = "_license"
    /\ licenceregister_cache' = None
    /\ last' = Returned("__init__", <<>>, None)
    /\ UNCHANGED <<g, dataset_dict, config, license_register, input>>

\* registers of the CKAN instance: the usual one, one where the license of
\* a URL has another id, and an empty one
Registers ==
    {LicenseRegisterItems,
     <<[id |-> <<"x">>, url |-> <<"h", "t", "t", "p", ":", "/", "/", "l", "/", "b", "y">>, title |-> <<"B", "Y">>]>>,
     <<>>}

\* a sysadmin changes the licenses of the CKAN instance
RegisterChanges ==
    /\ input.f = "_license"
    /\ license_register' \in Registers \ {license_register}
    /\ last' = Returned("LicenseRegister", <<>>, None)
    /\ UNCHANGED <<g, dataset_dict, licenceregister_cache, config, input>>

\* most triples in a graph whose license is asked for again and again
MaxLicenseTriples == 3

LicenseMemoTriples ==
    {<<TheDataset, "dcat:distribution", Dist1>>,
     <<TheDataset, "dcat:distribution", Dist2>>,
     <<Dist1, "dct:license", URIRef(<<"h", "t", "t", "p", ":", "/", "/", "l", "/", "b", "y">>)>>,
     <<Dist2, "dct:license", Literal(<<"o", "t", "h", "e", "r">>)>>,
     <<Literal(<<"o", "t", "h", "e", "r">>), "dct:title", Literal(<<"Z", "E", "R", "O">>)>>}

InitLicense ==
    /\ dataset_dict = EmptyDict
    /\ licenceregister_cache = None
    /\ license_register \in Registers
    /\ last = NoCall
    /\ g \in InjSeqsUpTo(LicenseMemoTriples, MaxLicenseTriples)
    /\ config = DefaultConfig
    /\ input = [f |-> "_license", dataset_ref |-> TheDataset]

NextLicense == CallLicense \/ RegisterChanges \/ NewProfile

SpecLicense == InitLicense /\ [][NextLicense]_vars

\* the id a pair of dicts (URL to id, title to id) gives the license of a
\* distribution: by its URI, else by its dct:title, else ""
MemoId(gr, cfg, maps, distribution) ==
    LET license_ == object(gr, distribution, "dct:license")
        title == object_value(gr, cfg, license_, "dct:title")
    IN IF license_.kind = "None" \/ license_.value = <<>> THEN <<>>
       ELSE IF license_.value \in DOMAIN maps[1] THEN maps[1][license_.value]
       ELSE IF title \in DOMAIN maps[2] THEN maps[2][title]
       ELSE <<>>

\* the id of the first distribution the dicts know, "" when there is none
MemoLicense(gr, cfg, maps, dataset_ref) ==
    LET dists == distributions(gr, dataset_ref)
        known == {i \in 1..Len(dists) : MemoId(gr, cfg, maps, dists[i]) # <<>>}
    IN IF known = {} THEN <<>> ELSE MemoId(gr, cfg, maps, dists[Min(known)])

\* the two dicts a register gives
MapsOf(register) ==
    [t |-> "tuple",
     v |-> <<[u \in {register[i].url : i \in 1..Len(register)} |->
                 register[CHOOSE i \in 1..Len(register) :
                              /\ register[i].url = u
                              /\ \A j \in (i + 1)..Len(register) : register[j].url # u].id],
             [ti \in {register[i].title : i \in 1..Len(register)} |->
                 register[CHOOSE i \in 1..Len(register) :
                              /\ register[i].title = ti
                              /\ \A j \in (i + 1)..Len(register) : register[j].title # ti].id]>>]

\* C13: the register is read at most once per profile instance. A memo once
\* built is never rebuilt on that instance; a call of _license with no memo
\* builds it from the register as it is then, a call with a memo leaves it
\* alone, and either way the id returned is the one the memo gives, whatever
\* the register has become; a new instance starts with no memo.
C13_RegisterReadOnce ==
    [][/\ (licenceregister_cache # None /\ last'.op # "__init__")
          => licenceregister_cache' = licenceregister_cache
       /\ (last'.op = "_license" /\ license_register' = license_register)
          => /\ licenceregister_cache' = IF licenceregister_cache = None
                                         THEN MapsOf(license_register)
                                         ELSE licenceregister_cache
             /\ last'.val = PyStr(MemoLicense(g, config, licenceregister_cache'.v,
                                              last'.arg))
       /\ (last'.op = "__init__" /\ last.op # "__init__")
          => licenceregister_cache' = None]_vars

\* after the register changed, _license has answered from the memo of an
\* earlier call, with an id other than the one the register now gives
C13_Witness ==
    /\ last.op = "_license"
    /\ licenceregister_cache # None
    /\ licenceregister_cache # MapsOf(license_register)
    /\ last.val = PyStr(MemoLicense(g, config, licenceregister_cache.v, last.arg))
    /\ last.val # PyStr(MemoLicense(g, config, MapsOf(license_register).v, last.arg))


-----------------------------------------------------------------------------
(* The root catalog: _get_source_catalog called again on one profile
   instance after triples were added to its graph *)

\* self._get_source_catalog(dataset_ref), as often as the caller likes
CallGetSourceCatalogAgain ==
    /\ input.f = "_get_source_catalog"
    /\ last' = Finished("_get_source_catalog", input.dataset_ref,
                        get_source_catalog(g, config, input.dataset_ref))
    /\ UNCHANGED <<g, dataset_dict, licenceregister_cache, config, license_register, input>>

\* most triples in a graph whose source catalog is asked for again
MaxCatalogTriples == 3

\* catalogs, typed or holding a part, and a link to the dataset
CatalogTriples ==
    {<<Catalog0, "rdf:type", DCAT_Catalog>>,
     <<Catalog1, "rdf:type", DCAT_Catalog>>,
     <<Catalog0, "dct:hasPart", Catalog1>>,
     <<Catalog2, "dct:hasPart", Catalog0>>,
     <<Catalog1, "dcat:dataset", TheDataset>>}

\* the caller keeps the catalog it was given and adds a triple to the graph
\* of the profile instance: self.g.add(triple)
GraphChanges ==
    /\ input.f = "_get_source_catalog"
    /\ Len(g) < MaxCatalogTriples
    /\ \E triple \in CatalogTriples \ Range(g) :
          /\ g' = GraphAdd(g, triple)
          /\ last' = Returned("g.add", triple, None)
    /\ input' = [input EXCEPT !.held = IF last.op = "_get_source_catalog" THEN last ELSE @]
    /\ UNCHANGED <<dataset_dict, licenceregister_cache, config, license_register>>

InitCatalog ==
    /\ dataset_dict = EmptyDict
    /\ licenceregister_cache = None
    /\ license_register = LicenseRegisterItems
    /\ last = NoCall
    /\ g \in InjSeqsUpTo(CatalogTriples, MaxCatalogTriples)
    /\ config \in {Config(<<"e", "n">>, expose, FALSE, FALSE) : expose \in BOOLEAN}
    /\ input = [f |-> "_get_source_catalog", dataset_ref |-> TheDataset, held |-> NoCall]

NextCatalog == CallGetSourceCatalogAgain \/ GraphChanges

SpecCatalog == InitCatalog /\ [][NextCatalog]_vars

\* C14 as the claim states it: with sub-catalog exposure enabled and no
\* catalog linking to the dataset, a call of _get_source_catalog after the
\* graph changed returns the root the earlier call on the instance returned.
C14_AsStated ==
    (/\ config.expose_subcatalogs
     /\ last.op = "_get_source_catalog"
     /\ input.held.op = "_get_source_catalog"
     /\ input.held.exc = ""
     /\ Subjects(g, "dcat:dataset", last.arg) = <<>>)
    => /\ last.exc = ""
       /\ last.val = input.held.val

\* C14, amended: nothing of the root-catalog resolution is kept on the
\* instance. With exposure enabled and no catalog linking to the dataset
\* every call of _get_source_catalog returns the root of the graph as it is
\* at that call: the subject of its first dct:hasPart triple, else of its
\* first rdf:type dcat:Catalog triple, and raises IndexError with neither.
C14_RootRecomputed ==
    (/\ config.expose_subcatalogs
     /\ last.op = "_get_source_catalog"
     /\ Subjects(g, "dcat:dataset", last.arg) = <<>>)
    => LET parts == {i \in 1..Len(g) : g[i][2] = "dct:hasPart"}
           typed == {i \in 1..Len(g) : g[i][2] = "rdf:type" /\ g[i][3] = DCAT_Catalog}
       IN IF parts # {} THEN last.exc = "" /\ last.val = g[Min(parts)][1]
          ELSE IF typed # {} THEN last.exc = "" /\ last.val = g[Min(typed)][1]
          ELSE last.exc = "IndexError"

\* the earlier call returned one root, a dct:hasPart triple was added, and
\* the later call returns another root
C14_Witness ==
    /\ config.expose_subcatalogs
    /\ last.op = "_get_source_catalog"
    /\ last.exc = ""
    /\ input.held.op = "_get_source_catalog"
    /\ input.held.exc = ""
    /\ Subjects(g, "dcat:dataset", last.arg) = <<>>
    /\ last.val # input.held.val
    /\ g[Len(g)][2] = "dct:hasPart"
    /\ last.val = g[Len(g)][1]


-----------------------------------------------------------------------------
(* Re-serialization: a graph is parsed, the dataset dict is serialized into
   a fresh graph by a new profile instance, and that graph is parsed again *)

\* graph_from_dataset(dataset_dict, dataset_ref) of a profile on a fresh
\* graph, for the dict the parser has just filled; the caller keeps the dict
\* it serialized and parses next into an empty one
CallGraphFromParsed ==
    /\ input.f = "parse_dataset"
    /\ last.op = "parse_dataset"
    /\ last.exc = ""
    /\ LET out == graph_from_dataset(<<>>, config, dataset_dict, input.dataset_ref)
       IN /\ g' = out.g
          /\ last' = [op |-> "graph_from_dataset", arg |-> input.dataset_ref,
                      exc |-> out.exc, val |-> None]
    /\ input' = [f |-> "graph_from_dataset", dataset_dict |-> dataset_dict,
                 dataset_ref |-> input.dataset_ref,
                 compatibility_mode |-> input.compatibility_mode]
    /\ dataset_dict' = EmptyDict
    /\ licenceregister_cache' = None
    /\ UNCHANGED <<config, license_register>>

\* most format and media type triples of the distribution
MaxFormatTriples == 2

\* media types and formats of a distribution, literals and references
ReserializeTriples ==
    {<<Dist1, "dcat:mediaType", Literal(<<"t", "e", "x", "t", "/", "c", "s", "v">>)>>,
     <<Dist1, "dcat:mediaType", URIRef(<<"h", "t", "t", "p", ":", "/", "/", "m">>)>>,
     <<Dist1, "dct:format", Literal(<<"C", "S", "V">>)>>,
     <<Dist1, "dct:format", Literal(<<"t", "e", "x", "t", "/", "c", "s", "v">>)>>,
     <<Dist1, "dct:format", Literal(<<"h", "t", "t", "p", ":", "/", "/", "x", "/", "y">>)>>,
     <<Dist1, "dct:format", URIRef(<<"h", "t", "t", "p", ":", "/", "/", "x", "/", "y">>)>>,
     <<Dist1, "dct:format", URIRef(<<"h", "t", "t", "p", ":", "/", "/", "w", "w", "w", ".", "i", "a", "n", "a", ".", "o", "r", "g", "/", "a", "s", "s", "i", "g", "n", "m", "e", "n", "t", "s", "/", "m", "e", "d", "i", "a", "-", "t", "y", "p", "e", "s", "/", "x">>)>>}

InitReserialize ==
    /\ dataset_dict = EmptyDict
    /\ licenceregister_cache = None
    /\ license_register = LicenseRegisterItems
    /\ last = NoCall
    /\ g \in {<<<<TheDataset, "dcat:distribution", Dist1>>>> \o tail :
                 tail \in InjSeqsUpTo(ReserializeTriples, MaxFormatTriples)}
    /\ config = Config(<<"e", "n">>, FALSE, FALSE, FALSE)
    /\ input = [f |-> "parse_dataset", dataset_ref |-> TheDataset,
                compatibility_mode |-> FALSE]

NextReserialize == CallParseDataset \/ CallGraphFromParsed

SpecReserialize == InitReserialize /\ [][NextReserialize]_vars

\* the mimetype and the format of the only resource of a dataset dict, None
\* for a key the resource lacks
FormatPair(d) ==
    <<DictGet(d["resources"].v[1], "mimetype", None),
      DictGet(d["resources"].v[1], "format", None)>>

\* C19 as the claim states it: with normalization disabled, the resource
\* parsed from the re-serialized graph has the mimetype and the format of
\* the resource of the first parse.
C19_AsStated ==
    (/\ last.op = "parse_dataset"
     /\ input.f = "graph_from_dataset")
    => /\ last.exc = ""
       /\ Len(dataset_dict["resources"].v) = 1
       /\ FormatPair(dataset_dict) = FormatPair(input.dataset_dict)


-----------------------------------------------------------------------------
(* Calls of the DCAT-AP 2 parser *)

\* profile.parse_dataset(dataset_dict, dataset_ref) of EuropeanDCATAP2Profile
CallParseDataset2 ==
    /\ input.f = "parse_dataset_2"
    /\ Parsed(parse_dataset_2(g, config, licenceregister_cache, input.compatibility_mode,
                              dataset_dict, input.dataset_ref))
    /\ UNCHANGED <<g, config, license_register, input>>

\* most triples about the access service, and about the period of time, in
\* a graph handed to the parser
MaxServiceTriples == 2
MaxPeriodTriples == 3

ServiceNode == BNode(<<"s">>)
PeriodNode == BNode(<<"p">>)

\* a distribution with an access service, and properties of the service
ServiceBase ==
    <<<<TheDataset, "dcat:distribution", Dist1>>,
      <<Dist1, "dcat:accessService", ServiceNode>>>>

ServiceTriples ==
    {<<ServiceNode, "dct:title", Literal(<<"t">>)>>,
     <<ServiceNode, "dct:description", Literal(<<"c">>)>>,
     <<ServiceNode, "dcat:endpointURL", URIRef(<<"h", "t", "t", "p", ":", "/", "/", "e">>)>>,
     <<ServiceNode, "dcat:endpointURL", Literal(<<"f">>)>>,
     <<ServiceNode, "dcat:servesDataset", TheDataset>>}

\* a period of time of the dataset, dated in two vocabularies
PeriodBase == <<<<TheDataset, "dct:temporal", PeriodNode>>>>

PeriodTriples ==
    {<<PeriodNode, "schema:startDate", Literal(<<"1", "9", "0", "1">>)>>,
     <<PeriodNode, "schema:endDate", Literal(<<"1", "9", "0", "2">>)>>,
     <<PeriodNode, "dcat:startDate", Literal(<<"1", "9", "0", "3">>)>>,
     <<PeriodNode, "dcat:endDate", Literal(<<"1", "9", "0", "4">>)>>}

InitParse2 ==
    /\ dataset_dict = EmptyDict
    /\ licenceregister_cache = None
    /\ license_register = LicenseRegisterItems
    /\ last = NoCall
    /\ g \in {ServiceBase \o tail : tail \in InjSeqsUpTo(ServiceTriples, MaxServiceTriples)}
          \cup {PeriodBase \o tail : tail \in InjSeqsUpTo(PeriodTriples, MaxPeriodTriples)}
    /\ config = DefaultConfig
    /\ input \in {[f |-> "parse_dataset_2", dataset_ref |-> TheDataset,
                   compatibility_mode |-> c] : c \in BOOLEAN}

NextParse2 == CallParseDataset2

SpecParse2 == InitParse2 /\ [][NextParse2]_vars

\* the sub-records of the access services of the first resource of a
\* dataset dict, decoded from its access_services, [] when it has none
AccessServicesOf(d) ==
    IF d["resources"].v # <<>> /\ "access_services" \in DOMAIN d["resources"].v[1]
    THEN JsonLoads(d["resources"].v[1]["access_services"].v).val.v
    ELSE <<>>

\* a sub-record holds the value under the key
HasMember(record, key, value) ==
    \E i \in 1..Len(record.v) : record.v[i] = [key |-> key, value |-> value]

\* C11 as the claim states it: after parse_dataset of DCAT-AP 2 the resource
\* has a sub-record for each dcat:accessService node of its distribution,
\* holding each simple field the node has a value for and the endpoint_url
\* and serves_dataset lists whenever the node has those triples.
C11_AsStated ==
    (last.op = "parse_dataset" /\ input.f = "parse_dataset_2" /\ last.exc = "")
    => LET dists == distributions(g, last.arg)
       IN \A d \in 1..Len(dists) :
             LET services == Objects(g, dists[d], "dcat:accessService")
                 records == AccessServicesOf(dataset_dict)
             IN /\ Len(records) = Len(services)
                /\ \A k \in 1..Len(services) :
                      /\ \A f \in 1..Len(AccessServiceSimpleFields) :
                            object_value(g, config, services[k],
                                         AccessServiceSimpleFields[f][2]) # <<>>
                            => HasMember(records[k], AccessServiceSimpleFields[f][1],
                                         PyStr(object_value(g, config, services[k],
                                                            AccessServiceSimpleFields[f][2])))
                      /\ \A f \in 1..Len(AccessServiceListFields) :
                            Objects(g, services[k], AccessServiceListFields[f][2]) # <<>>
                            => HasMember(records[k], AccessServiceListFields[f][1],
                                         PyList([i \in 1..Len(Objects(g, services[k], AccessServiceListFields[f][2])) |->
                                                    PyStr(Objects(g, services[k], AccessServiceListFields[f][2])[i].value)]))


\* the values the extras of a dataset dict hold under a key
ExtrasValues(d, key) ==
    {d["extras"].v[i].value : i \in {j \in 1..Len(d["extras"].v) : d["extras"].v[j].key = key}}

\* C18 as the claim states it: after parse_dataset of DCAT-AP 2, when the
\* pair _time_interval resolves with the priority of version 2 has a
\* non-empty component, the temporal_start and temporal_end extras are
\* exactly that pair: an empty component has no entry.
C18_AsStated ==
    (/\ last.op = "parse_dataset"
     /\ input.f = "parse_dataset_2"
     /\ last.exc = ""
     /\ PairTruthy(time_interval(g, config, last.arg, "dct:temporal", 2)))
    => /\ ExtrasValues(dataset_dict, "temporal_start")
          = {v \in {time_interval(g, config, last.arg, "dct:temporal", 2)[1]} : Truthy(v)}
       /\ ExtrasValues(dataset_dict, "temporal_end")
          = {v \in {time_interval(g, config, last.arg, "dct:temporal", 2)[2]} : Truthy(v)}

-----------------------------------------------------------------------------
(* Serializing a dataset and parsing it back with DCAT-AP 2 *)

\* profile.graph_from_dataset(dataset_dict, dataset_ref) of
\* EuropeanDCATAP2Profile; the dataset dict of the caller is written into
CallGraphFromDataset2 ==
    /\ input.f = "graph_from_dataset_2"
    /\ last.op = "init"
    /\ LET out == graph_from_dataset_2(g, config, input.dataset_dict, input.dataset_ref)
       IN /\ g' = out.g
          /\ input' = [input EXCEPT !.dataset_dict = out.dict]
          /\ last' = [op |-> "graph_from_dataset", arg |-> input.dataset_ref,
                      exc |-> out.exc, val |-> None]
    /\ UNCHANGED <<dataset_dict, licenceregister_cache, config, license_register>>

\* profile.parse_dataset(dataset_dict, dataset_ref) of EuropeanDCATAP2Profile
\* on the graph just serialized
CallParseSerialized2 ==
    /\ input.f = "graph_from_dataset_2"
    /\ last.op = "graph_from_dataset"
    /\ last.exc = ""
    /\ Parsed(parse_dataset_2(g, config, licenceregister_cache, input.compatibility_mode,
                              dataset_dict, input.dataset_ref))
    /\ UNCHANGED <<g, config, license_register, input>>

\* the spatial sub-fields of a record
SpatialKeys == {"spatial_uri", "spatial_text", "spatial", "spatial_bbox", "spatial_centroid"}

\* the value a spatial sub-field is populated with
SpatialValue(key) ==
    CASE key = "spatial_uri" -> PyStr(<<"h", "t", "t", "p", ":", "/", "/", "s">>)
      [] key = "spatial_text" -> PyStr(<<"s">>)
      [] OTHER -> PyStr(WktPointGeoJson)

\* every combination of populated spatial sub-fields
SpatialFields == {[key \in keys |-> SpatialValue(key)] : keys \in SUBSET SpatialKeys}

\* further fields of a record of DCAT-AP 2
MoreFields2 ==
    {EmptyDict,
     [temporal_start |-> PyStr(<<"1", "9", "0", "4">>), temporal_resolution |-> PyStr(<<"P", "1", "D">>),
      spatial_resolution_in_meters |-> PyStr(<<"[", "\"", "3", "0", "\"", ",", " ", "\"", "1", ".", "5", "0", "\"", ",", " ", "\"", "x", "\"", "]">>)],
     [resources |-> PyList(<<[uri |-> PyStr(<<"h", "t", "t", "p", ":", "/", "/", "r">>), name |-> PyStr(<<"r">>),
                              availability |-> PyStr(<<"s", "t", "a", "b", "l", "e">>),
                              access_services |-> PyStr(<<"[", "{", "\"", "t", "i", "t", "l", "e", "\"", ":", " ", "\"", "t", "\"", ",", " ", "\"", "e", "n", "d", "p", "o", "i", "n", "t", "_", "u", "r", "l", "\"", ":", " ", "[", "\"", "h", "t", "t", "p", ":", "/", "/", "e", "\"", "]", "}", ",", " ", "{", "\"", "u", "r", "i", "\"", ":", " ", "\"", "h", "t", "t", "p", ":", "/", "/", "a", "\"", "}", "]">>)]>>)]}

\* the dataset records serialized with DCAT-AP 2
Records2 ==
    {[title |-> PyStr(<<"t">>), notes |-> PyStr(<<"n">>)] @@ fields @@ more :
        fields \in SpatialFields, more \in MoreFields2}

InitRoundTrip2 ==
    /\ g = <<>>
    /\ dataset_dict = EmptyDict
    /\ licenceregister_cache = None
    /\ license_register = LicenseRegisterItems
    /\ config = DefaultConfig
    /\ last = NoCall
    /\ input \in {[f |-> "graph_from_dataset_2", dataset_dict |-> record,
                   dataset_ref |-> TheDataset, compatibility_mode |-> c] :
                     record \in Records2, c \in BOOLEAN}

NextRoundTrip2 == CallGraphFromDataset2 \/ CallParseSerialized2

SpecRoundTrip2 == InitRoundTrip2 /\ [][NextRoundTrip2]_vars

\* the record parsed back holds a value under the key
ParsedBack(d, key) ==
    /\ "extras" \in DOMAIN d
    /\ \E i \in 1..Len(d["extras"].v) :
          d["extras"].v[i].key = key /\ Truthy(d["extras"].v[i].value)

\* C12 as the claim states it: after a record is serialized with DCAT-AP 2
\* on a fresh graph and parsed back, every spatial sub-field the record
\* populated (spatial_uri, spatial_text, spatial, spatial_bbox,
\* spatial_centroid) is populated in the record parsed back, whatever the
\* combination, spatial_uri alone included.
C12_AsStated ==
    (last.op = "parse_dataset" /\ input.f = "graph_from_dataset_2")
    => \A key \in SpatialKeys :
          Truthy(get_dict_value(input.dataset_dict, key, None))
          => ParsedBack(dataset_dict, key)

-----------------------------------------------------------------------------
(* Time intervals *)

\* self._time_interval(subject, predicate, dcat_ap_version)
CallTimeInterval ==
    /\ input.f = "_time_interval"
    /\ last' = Returned("_time_interval",
                        [subject |-> input.subject, predicate |-> input.predicate,
                         dcat_ap_version |-> input.dcat_ap_version],
                        PyList(time_interval(g, config, input.subject, input.predicate,
                                             input.dcat_ap_version)))
    /\ UNCHANGED <<g, dataset_dict, licenceregister_cache, config, license_register, input>>

\* most triples about the intervals in a graph handed to _time_interval
MaxIntervalTriples == 4

Interval1 == BNode(<<"i", "1">>)
Interval2 == BNode(<<"i", "2">>)
BeginNode == BNode(<<"b">>)
EndNode == BNode(<<"e">>)

\* a first interval of the dataset
IntervalBase == << <<TheDataset, "dct:temporal", Interval1>> >>

\* the first interval dated in the three vocabularies, and a second interval
IntervalTriples ==
    {<<Interval1, "schema:startDate", Literal(<<"1", "9", "0", "1">>)>>,
     <<Interval1, "dcat:endDate", Literal(<<"1", "9", "0", "4">>)>>,
     <<Interval1, "time:hasBeginning", BeginNode>>,
     <<BeginNode, "time:inXSDDate", Literal(<<"1", "9", "0", "5">>)>>,
     <<Interval1, "time:hasEnd", EndNode>>,
     <<EndNode, "time:inXSDDate", Literal(<<"1", "9", "0", "6">>)>>,
     <<EndNode, "time:inXSDDateTime", Literal(<<"1", "9", "0", "7">>)>>,
     <<EndNode, "time:inXSDDateTimeStamp", Literal(<<"1", "9", "0", "8">>)>>,
     <<TheDataset, "dct:temporal", Interval2>>,
     <<Interval2, "schema:endDate", Literal(<<"1", "9", "0", "2">>)>>}

InitInterval ==
    /\ dataset_dict = EmptyDict
    /\ licenceregister_cache = None
    /\ license_register = LicenseRegisterItems
    /\ last = NoCall
    /\ config = DefaultConfig
    /\ g \in {IntervalBase \o tail : tail \in InjSeqsUpTo(IntervalTriples, MaxIntervalTriples)}
    /\ input \in {[f |-> "_time_interval", subject |-> TheDataset,
                   predicate |-> "dct:temporal", dcat_ap_version |-> v] : v \in {1, 2}}

NextInterval == CallTimeInterval

SpecInterval == InitInterval /\ [][NextInterval]_vars

\* the text of a value, None being no text
TextOf(value) == IF value.t = "str" THEN value.v ELSE <<>>

\* the date of a W3C Time node: the first of inXSDDateTimeStamp,
\* inXSDDateTime, inXSDDate the node has
DateOfTimeNode(gr, node) ==
    IF Objects(gr, node, "time:inXSDDateTimeStamp") # <<>>
    THEN Str(Objects(gr, node, "time:inXSDDateTimeStamp")[1])
    ELSE IF Objects(gr, node, "time:inXSDDateTime") # <<>>
    THEN Str(Objects(gr, node, "time:inXSDDateTime")[1])
    ELSE IF Objects(gr, node, "time:inXSDDate") # <<>>
    THEN Str(Objects(gr, node, "time:inXSDDate")[1])
    ELSE <<>>

\* the text under a predicate of a node, <<>> when it has none
TextUnder(gr, node, predicate) ==
    IF Objects(gr, node, predicate) = <<>> THEN <<>>
    ELSE Str(Objects(gr, node, predicate)[1])

\* the start and end an interval node states in a vocabulary
StatedIn(gr, interval, vocabulary) ==
    CASE vocabulary = "schema" ->
            <<TextUnder(gr, interval, "schema:startDate"),
              TextUnder(gr, interval, "schema:endDate")>>
      [] vocabulary = "dcat" ->
            <<TextUnder(gr, interval, "dcat:startDate"),
              TextUnder(gr, interval, "dcat:endDate")>>
      [] vocabulary = "time" ->
            <<IF Objects(gr, interval, "time:hasBeginning") = <<>> THEN <<>>
              ELSE DateOfTimeNode(gr, Objects(gr, interval, "time:hasBeginning")[1]),
              IF Objects(gr, interval, "time:hasEnd") = <<>> THEN <<>>
              ELSE DateOfTimeNode(gr, Objects(gr, interval, "time:hasEnd")[1])>>

\* the pairs with a start or an end the intervals of the subject state in a
\* vocabulary
Yields(gr, subject, predicate, vocabulary) ==
    {StatedIn(gr, Objects(gr, subject, predicate)[i], vocabulary) :
        i \in 1..Len(Objects(gr, subject, predicate))} \ {<< <<>>, <<>> >>}

\* the vocabularies in the order of their priority
VocabularyOrder(dcat_ap_version) ==
    IF dcat_ap_version = 1 THEN <<"schema", "time">> ELSE <<"dcat", "time", "schema">>

\* C21: _time_interval returns a pair stated in the first vocabulary, in the
\* order of the version (1: schema.org, W3C Time; 2: DCAT, W3C Time,
\* schema.org), that has a start or an end for some interval; a later
\* vocabulary counts only when no earlier one has either; the date of a W3C
\* Time node is its inXSDDateTimeStamp, else inXSDDateTime, else inXSDDate;
\* with no vocabulary stating anything the pair has no start and no end.
C21_FirstVocabulary ==
    last.op = "_time_interval"
    => LET order == VocabularyOrder(last.arg.dcat_ap_version)
           found == <<TextOf(last.val.v[1]), TextOf(last.val.v[2])>>
       IN \/ /\ \A k \in 1..Len(order) :
                   Yields(g, last.arg.subject, last.arg.predicate, order[k]) = {}
             /\ found = << <<>>, <<>> >>
          \/ \E k \in 1..Len(order) :
                /\ found \in Yields(g, last.arg.subject, last.arg.predicate, order[k])
                /\ \A j \in 1..(k - 1) :
                      Yields(g, last.arg.subject, last.arg.predicate, order[j]) = {}

\* version 2 answered from W3C Time, by the inXSDDateTime of the end node that
\* has an inXSDDate too, although schema.org states a start
C21_Witness ==
    /\ last.op = "_time_interval"
    /\ last.arg.dcat_ap_version = 2
    /\ Yields(g, last.arg.subject, last.arg.predicate, "schema") # {}
    /\ Objects(g, EndNode, "time:inXSDDate") # <<>>
    /\ TextOf(last.val.v[2]) = <<"1", "9", "0", "7">>
    /\ TextOf(last.val.v[1]) = <<>>


\* C22 as the claim states it: when no interval of the subject states a
\* start or an end in any of the three vocabularies, _time_interval returns
\* (None, None), for version 1 and for version 2.
C22_AsStated ==
    (/\ last.op = "_time_interval"
     /\ \A vocabulary \in {"schema", "dcat", "time"} :
           Yields(g, last.arg.subject, last.arg.predicate, vocabulary) = {})
    => last.val.v = <<None, None>>

-----------------------------------------------------------------------------
(* The format of a distribution given as a node typed dct:IMT *)

\* the text a node carries under a predicate as a Python value, None when
\* it carries none
CarriedOrNone(gr, node, predicate) ==
    IF Objects(gr, node, predicate) = <<>> THEN None
    ELSE PyStr(Str(Objects(gr, node, predicate)[1]))

\* C23 as the claim states it: for a dct:format node typed dct:IMT,
\* _distribution_format never answers the text "None"; without
\* normalization and without dcat:mediaType it answers the rdf:value of the
\* node as media type and its rdfs:label as label, None for the one the node
\* does not carry.
C23_AsStated ==
    (/\ last.op = "_distribution_format"
     /\ object(g, last.arg.distribution, "dct:format").kind \in {"BNode", "URIRef"}
     /\ object(g, object(g, last.arg.distribution, "dct:format"), "rdf:type") = DCT_IMT)
    => /\ last.val.v[1] # PyStr(<<"N", "o", "n", "e">>)
       /\ last.val.v[2] # PyStr(<<"N", "o", "n", "e">>)
       /\ (/\ ~last.arg.normalize_ckan_format
           /\ Objects(g, last.arg.distribution, "dcat:mediaType") = <<>>)
          => last.val.v =
                <<CarriedOrNone(g, object(g, last.arg.distribution, "dct:format"),
                                "rdf:value"),
                  CarriedOrNone(g, object(g, last.arg.distribution, "dct:format"),
                                "rdfs:label")>>

-----------------------------------------------------------------------------
(* Calls of the triple writer: _add_triple_from_dict and _add_list_triple *)

\* self._add_triple_from_dict(_dict, subject, predicate, key, fallbacks,
\* list_value, date_value, _type, value_modifier=value_modifier); the
\* callers never give a _type with date_value
CallAddTripleFromDict ==
    /\ input.f = "_add_triple_from_dict"
    /\ LET out == add_triple_from_dict(g, input._dict, input.subject, input.predicate,
                                       input.key, input.fallbacks, input.list_value,
                                       input.date_value, input._type, "",
                                       input.value_modifier)
       IN /\ g' = out.g
          /\ last' = [op |-> "_add_triple_from_dict", arg |-> input, exc |-> out.exc,
                      val |-> None]
    /\ UNCHANGED <<dataset_dict, licenceregister_cache, config, license_register, input>>

\* self._add_list_triple(subject, predicate, value, _type)
CallAddListTriple ==
    /\ input.f = "_add_list_triple"
    /\ LET out == add_list_triple(g, input.subject, input.predicate, input.value,
                                  input._type, "")
       IN /\ g' = out.g
          /\ last' = [op |-> "_add_list_triple", arg |-> input, exc |-> out.exc,
                      val |-> None]
    /\ UNCHANGED <<dataset_dict, licenceregister_cache, config, license_register, input>>

\* the values a dict holds under the key and under the fallback keys
DictValues ==
    [k |-> {PyStr(<<>>), PyStr(<<"a", " ", "b">>)},
     f1 |-> {PyStr(<<>>), PyStr(<<"x", ",", "y">>), None},
     f2 |-> {PyStr(<<"1", "9", "0", "4">>)}]

\* the dicts over some of the keys
WriterDicts ==
    {x \in UNION {[keys -> UNION {DictValues[k] : k \in keys}] :
                     keys \in SUBSET {"k", "f1", "f2"}} :
        \A k \in DOMAIN x : x[k] \in DictValues[k]}

\* the values handed to _add_list_triple: lists, plain and comma-separated
\* text, and JSON text of every kind
ListValues ==
    {PyList(<<PyStr(<<"a">>), PyStr(<<"b", " ", "c">>)>>), PyList(<<>>), PyStr(<<"x">>),
     PyStr(<<"x", ",", "y">>), PyStr(<<"[", "\"", "a", "\"", ",", " ", "\"", "b", "\"", "]">>), PyStr(<<"7">>), PyStr(<<"n", "u", "l", "l">>),
     PyStr(<<"t", "r", "u", "e">>), PyStr(<<"\"", "a", "b", "\"">>), PyStr(<<"{", "\"", "a", "\"", ":", " ", "1", "}">>)}

InitTriples ==
    /\ g = <<>>
    /\ dataset_dict = EmptyDict
    /\ licenceregister_cache = None
    /\ license_register = LicenseRegisterItems
    /\ config = DefaultConfig
    /\ last = NoCall
    /\ \/ /\ input \in {[f |-> "_add_triple_from_dict", _dict |-> d,
                         subject |-> TheDataset, predicate |-> "dct:p", key |-> "k",
                         fallbacks |-> fallbacks, list_value |-> l, date_value |-> t,
                         _type |-> _type, value_modifier |-> m] :
                           d \in WriterDicts,
                           fallbacks \in {<<>>, <<"f1", "f2">>},
                           l \in BOOLEAN, t \in BOOLEAN,
                           _type \in {"Literal", "URIRef", "URIRefOrLiteral"},
                           m \in {"", "_add_mailto"}}
          /\ input.date_value => input._type = "Literal"
       \/ input \in {[f |-> "_add_list_triple", subject |-> TheDataset,
                      predicate |-> "dct:p", value |-> v, _type |-> _type] :
                        v \in ListValues,
                        _type \in {"Literal", "URIRef", "URIRefOrLiteral"}}

NextTriples == CallAddTripleFromDict \/ CallAddListTriple

SpecTriples == InitTriples /\ [][NextTriples]_vars

\* the values under the key and then under each fallback key, absent keys
\* left out
Lookups(_dict, keys) ==
    SelectSeq([i \in 1..Len(keys) |-> DictGet(_dict, keys[i], None)], Truthy)

\* the object of a triple for a text and a type of target
TargetOf(_type, text) ==
    CASE _type = "Literal" -> Literal(text)
      [] _type = "URIRef" -> CleanedURIRef(text)
      [] _type = "URIRefOrLiteral" -> URIRefOrLiteral(text)

\* the object of a triple for an item of a list: a text, or a number that
\* JSON text decoded to
ItemTargetOf(_type, item) ==
    IF item.t = "str" THEN TargetOf(_type, item.v) ELSE MakeObject(_type, "", item)

\* the triples of each mode for a value
ModeTriples(arg, value) ==
    IF arg.list_value
    THEN {<<arg.subject, arg.predicate, ItemTargetOf(arg._type, item)>> :
             item \in Range(IterItems(read_list_value(PyStr(value))))}
    ELSE IF arg.date_value
    THEN {<<arg.subject, arg.predicate,
            IF IsPartialDate(value)
            THEN LiteralTyped(value \o SubSeq(DefaultDatetime, Len(value) + 1, 19),
                              XSD_dateTime)
            ELSE Literal(value)>>}
    ELSE {<<arg.subject, arg.predicate, TargetOf(arg._type, value)>>}

\* C24: _add_triple_from_dict takes the first non-empty value among the
\* lookups of the key and of each fallback key in order, applies the value
\* modifier, and adds the triples of exactly one mode: one per item in list
\* mode, else one date literal in date mode, else one triple whose URIRef
\* target went through CleanedURIRef; with every lookup empty the graph is
\* left unchanged.
C24_OneMode ==
    last.op = "_add_triple_from_dict"
    => LET found == Lookups(last.arg._dict, <<last.arg.key>> \o last.arg.fallbacks)
       IN /\ last.exc = ""
          /\ Range(g) =
                IF found = <<>> THEN {}
                ELSE ModeTriples(last.arg,
                                 IF last.arg.value_modifier = "_add_mailto"
                                 THEN <<"m", "a", "i", "l", "t", "o", ":">> \o found[1].v
                                 ELSE found[1].v)

\* the key is empty, the second fallback key has the first value, and it
\* was written in date mode
C24_Witness ==
    /\ last.op = "_add_triple_from_dict"
    /\ last.arg.date_value /\ ~last.arg.list_value
    /\ "k" \in DOMAIN last.arg._dict
    /\ ~Truthy(DictGet(last.arg._dict, "f1", None))
    /\ last.arg.fallbacks = <<"f1", "f2">>
    /\ last.arg.value_modifier = ""
    /\ Range(g) = {<<TheDataset, "dct:p",
                     LiteralTyped(<<"1", "9", "0", "4", "-", "0", "1", "-", "0", "1", "T", "0", "0", ":", "0", "0", ":", "0", "0">>, XSD_dateTime)>>}


\* C29 as the claim states it: for a list or a str, JSON text of any kind
\* included, _read_list_value returns a list and _add_list_triple adds one
\* triple per item of it without error.
C29_AsStated ==
    last.op = "_add_list_triple"
    => /\ read_list_value(last.arg.value).t = "list"
       /\ last.exc = ""
       /\ Cardinality(Range(g)) = Cardinality(Range(read_list_value(last.arg.value).v))

-----------------------------------------------------------------------------
(* The fallback license of the distributions *)

\* most resources of a dataset serialized
MaxResources == 2

\* the license_id and the license_url of a dataset: none, a code, references
DatasetLicenses ==
    {EmptyDict,
     [license_id |-> PyStr(<<"c", "c", "-", "b", "y">>)],
     [license_id |-> PyStr(<<"h", "t", "t", "p", ":", "/", "/", "l", "/", "b", "y">>)],
     [license_id |-> PyStr(<<"c", "c", "-", "b", "y">>), license_url |-> PyStr(<<"h", "t", "t", "p", "s", ":", "/", "/", "l", "/", "u">>)],
     [license_id |-> PyStr(<<"h", "t", "t", "p", ":", "/", "/", "l", "/", "b", "y">>), license_url |-> PyStr(<<"h", "t", "t", "p", "s", ":", "/", "/", "l", "/", "u">>)],
     [license_url |-> PyStr(<<"h", "t", "t", "p", "s", ":", "/", "/", "l", "/", "u">>)],
     [license_url |-> PyStr(<<"u">>)]}

\* the license a resource declares: none, an empty one, a reference, a code
ResourceLicenses ==
    {EmptyDict, [license |-> PyStr(<<>>)], [license |-> PyStr(<<"h", "t", "t", "p", ":", "/", "/", "o", "w", "n">>)],
     [license |-> PyStr(<<"o", "w", "n">>)]}

\* the uri of the i-th resource
ResourceUri(i) == <<"h", "t", "t", "p", ":", "/", "/", "r", "/">> \o NatToStr(i)

\* the lists of resources of a dataset
ResourceLists ==
    UNION {{[i \in 1..n |-> [uri |-> PyStr(ResourceUri(i))] @@ licenses[i]] :
               licenses \in [1..n -> ResourceLicenses]} : n \in 0..MaxResources}

InitFallback ==
    /\ g = <<>>
    /\ dataset_dict = EmptyDict
    /\ licenceregister_cache = None
    /\ license_register = LicenseRegisterItems
    /\ config \in {Config(<<"e", "n">>, FALSE, FALSE, inherit) : inherit \in BOOLEAN}
    /\ last = NoCall
    /\ input \in {[f |-> "graph_from_dataset",
                   dataset_dict |-> [title |-> PyStr(<<"t">>),
                                     resources |-> PyList(resources)] @@ licenses,
                   dataset_ref |-> TheDataset, compatibility_mode |-> FALSE] :
                     licenses \in DatasetLicenses, resources \in ResourceLists}

NextFallback == CallGraphFromDataset

SpecFallback == InitFallback /\ [][NextFallback]_vars

\* the text is an http or https reference
IsHttpReference(value) ==
    /\ value.t = "str"
    /\ \/ StartsWith(Strip(value.v), <<"h", "t", "t", "p", ":", "/", "/">>)
       \/ StartsWith(Strip(value.v), <<"h", "t", "t", "p", "s", ":", "/", "/">>)

\* the license of the dataset that is a reference: its license_id, or else
\* its license_url; None when neither is one
DatasetReference(d) ==
    IF IsHttpReference(DictGet(d, "license_id", None)) THEN d["license_id"]
    ELSE IF IsHttpReference(DictGet(d, "license_url", None)) THEN d["license_url"]
    ELSE None

\* the dct:license objects the distribution of a resource is to have
LicensesExpected(inherit, d, resource_dict) ==
    IF Truthy(DictGet(resource_dict, "license", None))
    THEN <<URIRefOrLiteral(resource_dict["license"].v)>>
    ELSE IF inherit /\ DatasetReference(d) # None
    THEN <<URIRef(Strip(DatasetReference(d).v))>>
    ELSE <<>>

\* C25: graph_from_dataset gives a distribution the fallback dct:license
\* exactly when license inheritance is enabled, the distribution has no
\* dct:license of its own and the license_id of the dataset, or else its
\* license_url, is an http or https reference; the fallback is that
\* reference, and a distribution with a license of its own has only its own.
C25_FallbackLicense ==
    (last.op = "graph_from_dataset" /\ input.f = "graph_from_dataset"
     /\ "resources" \in DOMAIN input.dataset_dict)
    => \A i \in 1..Len(input.dataset_dict["resources"].v) :
          Objects(g, URIRef(ResourceUri(i)), "dct:license")
             = LicensesExpected(config.resource_inherit_license, input.dataset_dict,
                                input.dataset_dict["resources"].v[i])

\* the license_id is a code, so the license_url is the fallback: the first
\* distribution keeps its own license, the second receives the license_url
C25_Witness ==
    /\ last.op = "graph_from_dataset"
    /\ config.resource_inherit_license
    /\ DictGet(input.dataset_dict, "license_id", None) = PyStr(<<"c", "c", "-", "b", "y">>)
    /\ Objects(g, URIRef(ResourceUri(1)), "dct:license") = <<Literal(<<"o", "w", "n">>)>>
    /\ Objects(g, URIRef(ResourceUri(2)), "dct:license") = <<URIRef(<<"h", "t", "t", "p", "s", ":", "/", "/", "l", "/", "u">>)>>

-----------------------------------------------------------------------------
(* Parsing into a record that already holds values *)

\* most triples in a graph parsed into such a record
MaxIncomingTriples == 3

\* a catalog of the graph, so that the source catalog can be exposed
IncomingBase ==
    << <<Catalog0, "rdf:type", DCAT_Catalog>>,
       <<Catalog0, "dct:title", Literal(<<"c">>)>> >>

\* a title, a rights statement, a licensed distribution, a dated period
\* and an issue date of the dataset
IncomingTriples ==
    {<<TheDataset, "dct:title", Literal(<<"g">>)>>,
     <<TheDataset, "dct:accessRights", Literal(<<"p">>)>>,
     <<TheDataset, "dcat:distribution", Dist1>>,
     <<Dist1, "dct:license", URIRef(<<"h", "t", "t", "p", ":", "/", "/", "l", "/", "b", "y">>)>>,
     <<TheDataset, "dct:temporal", PeriodNode>>,
     <<PeriodNode, "schema:startDate", Literal(<<"1", "9", "0", "1">>)>>,
     <<PeriodNode, "dcat:startDate", Literal(<<"1", "9", "0", "3">>)>>,
     <<TheDataset, "dct:issued", Literal(<<"1", "9", "0", "4">>)>>}

\* the records the caller or an earlier profile hands over
IncomingRecords ==
    {EmptyDict,
     [license_id |-> PyStr(<<"x">>)],
     [license_id |-> PyStr(<<>>), title |-> PyStr(<<"t", "0">>)],
     [title |-> PyStr(<<"t", "0">>), notes |-> PyStr(<<"n", "0">>), version |-> PyStr(<<"1">>),
      extras |-> PyList(<<[key |-> "old", value |-> PyStr(<<"o">>)],
                          [key |-> "temporal_start", value |-> PyStr(<<"1", "9", "0", "0">>)]>>),
      resources |-> PyList(<<[name |-> PyStr(<<"r", "0">>)]>>)]}

InitIncoming ==
    /\ licenceregister_cache = None
    /\ license_register = LicenseRegisterItems
    /\ last = NoCall
    /\ g \in {IncomingBase \o tail : tail \in InjSeqsUpTo(IncomingTriples, MaxIncomingTriples)}
    /\ config \in {Config(<<"e", "n">>, expose, FALSE, FALSE) : expose \in BOOLEAN}
    /\ dataset_dict \in IncomingRecords
    /\ input \in {[f |-> f, dataset_ref |-> TheDataset, compatibility_mode |-> c] :
                     f \in {"parse_dataset", "parse_dataset_2"}, c \in BOOLEAN}

NextIncoming == CallParseDataset \/ CallParseDataset2

SpecIncoming == InitIncoming /\ [][NextIncoming]_vars

\* C26 as the claim states it: a parse_dataset call leaves the license_id of
\* the incoming record as it is, without consulting the license registry;
\* for a record without the key it sets license_id to the result of _license.
C26_AsStated ==
    [][last'.op = "parse_dataset"
       => IF "license_id" \in DOMAIN dataset_dict
          THEN /\ dataset_dict'["license_id"] = dataset_dict["license_id"]
               /\ licenceregister_cache' = licenceregister_cache
          ELSE /\ "license_id" \in DOMAIN dataset_dict'
               /\ dataset_dict'["license_id"]
                     = PyStr(license(g, config, licenceregister_cache,
                                     LicenseRegisterItems, last'.arg))]_vars


\* a record without its extras and its resources
WithoutLists(record) ==
    [key \in DOMAIN record \ {"extras", "resources"} |-> record[key]]

\* the record the profile asked for leaves when it parses into a record
ParsedInto(record) ==
    IF input.f = "parse_dataset"
    THEN parse_dataset(g, config, licenceregister_cache, input.compatibility_mode,
                       record, input.dataset_ref).dict
    ELSE parse_dataset_2(g, config, licenceregister_cache, input.compatibility_mode,
                         record, input.dataset_ref).dict

\* the predicates the top-level scalar keys are read from
ScalarPredicates ==
    [title |-> {"dct:title"}, notes |-> {"dct:description"},
     url |-> {"dcat:landingPage"}, private |-> {"dct:private"},
     version |-> {"owl:versionInfo", "adms:version"}]

\* C27: parse_dataset builds the extras and the resources anew: they are
\* those of parsing into the record without its extras and resources, so
\* an entry or a resource the record came with is there only if the graph
\* gives it again; a title, notes, url, private or version the record came
\* with stays when the graph has no value for it.
C27_FreshLists ==
    [][last'.op = "parse_dataset"
       => /\ dataset_dict'["extras"] = ParsedInto(WithoutLists(dataset_dict))["extras"]
          /\ dataset_dict'["resources"]
                = ParsedInto(WithoutLists(dataset_dict))["resources"]
          /\ \A key \in DOMAIN ScalarPredicates :
                (/\ key \in DOMAIN dataset_dict
                 /\ \A predicate \in ScalarPredicates[key] :
                       Objects(g, input.dataset_ref, predicate) = <<>>)
                => dataset_dict'[key] = dataset_dict[key]]_vars

\* the record came with a title, a version, two extras and a resource; the
\* graph gave an issue date only: title and version stayed, the extras hold
\* the issue date and neither of the two, the resource is gone
C27_Witness ==
    /\ last.op = "parse_dataset"
    /\ DictGet(dataset_dict, "title", None) = PyStr(<<"t", "0">>)
    /\ DictGet(dataset_dict, "version", None) = PyStr(<<"1">>)
    /\ dataset_dict["resources"] = PyList(<<>>)
    /\ \E i \in 1..Len(dataset_dict["extras"].v) :
          dataset_dict["extras"].v[i].key \in {"issued", "dcat_issued"}
    /\ \A i \in 1..Len(dataset_dict["extras"].v) :
          dataset_dict["extras"].v[i].key \notin {"old", "temporal_start"}


\* the keys of the extras of a record, in order
ExtrasKeys(d) ==
    [i \in 1..Len(d["extras"].v) |-> d["extras"].v[i].key]

\* C28: after a parse_dataset call of the DCAT-AP 1 or 2 profile that
\* completes, no two entries of the extras of the record have the same key.
C28_DistinctKeys ==
    (last.op = "parse_dataset" /\ last.exc = "")
    => \A i, j \in 1..Len(ExtrasKeys(dataset_dict)) :
          ExtrasKeys(dataset_dict)[i] = ExtrasKeys(dataset_dict)[j] => i = j

\* the DCAT-AP 2 profile parsed a period with a schema.org start (which the
\* first pass wrote) and a DCAT start (which the second pass found): one
\* temporal_start entry, holding the DCAT start
C28_Witness ==
    /\ last.op = "parse_dataset" /\ last.exc = ""
    /\ input.f = "parse_dataset_2"
    /\ <<PeriodNode, "schema:startDate", Literal(<<"1", "9", "0", "1">>)>> \in Range(g)
    /\ <<PeriodNode, "dcat:startDate", Literal(<<"1", "9", "0", "3">>)>> \in Range(g)
    /\ Cardinality({i \in 1..Len(ExtrasKeys(dataset_dict)) :
                       ExtrasKeys(dataset_dict)[i] = "temporal_start"}) = 1
    /\ \E i \in 1..Len(dataset_dict["extras"].v) :
          dataset_dict["extras"].v[i]
             = [key |-> "temporal_start", value |-> PyStr(<<"1", "9", "0", "3">>)]


-----------------------------------------------------------------------------
(* The location node of a dataset serialized with DCAT-AP 2 *)

\* the predicate each spatial sub-field is written with
SpatialPredicate ==
    [spatial_text |-> "skos:prefLabel", spatial |-> "locn:geometry",
     spatial_bbox |-> "dcat:bbox", spatial_centroid |-> "dcat:centroid"]

\* the spatial sub-fields the record populates
SpatialPopulated(record) ==
    {key \in DOMAIN SpatialPredicate : Truthy(get_dict_value(record, key, None))}

\* the subjects of the triples of the graph with the predicate
SubjectsWith(gr, predicate) ==
    {gr[i][1] : i \in {j \in 1..Len(gr) : gr[j][2] = predicate}}

\* the locations of the dataset in the graph
Locations(gr, dataset_ref) == Range(Objects(gr, dataset_ref, "dct:spatial"))

\* C30: after graph_from_dataset of DCAT-AP 2 on a graph without a location
\* of the dataset, the dataset has at most one dct:spatial object; there is
\* one exactly when the record populates spatial_text, spatial, spatial_bbox
\* or spatial_centroid; and each of these the record populates is written on
\* that node and on no other.
C30_OneLocation ==
    (last.op = "graph_from_dataset" /\ input.f = "graph_from_dataset_2")
    => /\ Cardinality(Locations(g, input.dataset_ref)) <= 1
       /\ Locations(g, input.dataset_ref) # {}
             <=> SpatialPopulated(input.dataset_dict) # {}
       /\ \A key \in DOMAIN SpatialPredicate :
             SubjectsWith(g, SpatialPredicate[key])
                = IF key \in SpatialPopulated(input.dataset_dict)
                  THEN Locations(g, input.dataset_ref) ELSE {}

\* a record with a text and a bounding box and no spatial_uri was written:
\* one blank node is the location, and it carries the label and the box
C30_Witness ==
    /\ last.op = "graph_from_dataset" /\ input.f = "graph_from_dataset_2"
    /\ SpatialPopulated(input.dataset_dict) = {"spatial_text", "spatial_bbox"}
    /\ get_dict_value(input.dataset_dict, "spatial_uri", None) = None
    /\ \E node \in Locations(g, input.dataset_ref) :
          /\ node.kind = "BNode"
          /\ SubjectsWith(g, "skos:prefLabel") = {node}
          /\ SubjectsWith(g, "dcat:bbox") = {node}

=============================================================================
